---- MODULE Spec2Model ----
(***************************************************************************)
(* A model of the hivemind-go orchestration core:                          *)
(*   - Agent.Run, the ReAct loop with its background jobs                  *)
(*     (src/pkg/builder/builder.go, package agent),                        *)
(*   - ParallelTaskDelegator.Execute (src/pkg/tools/context.go),           *)
(*   - the Context store and its Copy (src/pkg/tools/context.go),          *)
(*   - BuildAgent / WithTools (src/pkg/builder/builder.go).                *)
(* Each part has its own specification; the variables of the other parts   *)
(* stay at their idle values.                                              *)
(***************************************************************************)
EXTENDS Integers, Sequences, FiniteSets, TLC

VARIABLES
    \* ---- Agent.Run ----
    pc,                 \* position of Run: "start", "loop", "invoke", "done"
    maxIterations,      \* Agent.maxIterations
    messages,           \* Agent.messages
    isWaitingForJobs,   \* local of Run
    iterationCount,     \* local of Run
    backgroundJobs,     \* keys of Agent.backgroundJobs
    jobs,               \* the Job objects and their worker goroutines
    runResult,          \* first return value of Run
    runErr,             \* second return value of Run
    \* ---- ParallelTaskDelegator.Execute ----
    ppc,                \* position of Execute: "idle", "launch", "wait", "returned"
    tasks,              \* args["tasks"]
    loopIdx,            \* i of the launching loop
    wg,                 \* sync.WaitGroup counter
    gor,                \* the launched goroutines, by index
    results,            \* results slice
    errs,               \* errs slice
    execText,           \* first return value of Execute
    execErr,            \* second return value of Execute
    \* ---- Context ----
    stores,             \* the Context objects
    heap,               \* the values the stores' entries reference
    copyErr,            \* whether the last Copy returned an error
    calls,              \* how many calls the stores' holders have made
    \* ---- BuildAgent ----
    bpc,                \* position of BuildAgent
    toolConfs,          \* config.Tools
    agentTools,         \* local agentTools of BuildAgent
    registry,           \* Agent.tools
    buildErr,           \* error returned by BuildAgent
    \* ---- parseLLMResponse ----
    jpc,                \* position of parseLLMResponse: "idle", "call", "returned"
    llmResponse,        \* the text handed to parseLLMResponse
    parsedResponse,     \* what parseLLMResponse returned
    \* ---- KeepLastN.Apply ----
    kpc,                \* position of KeepLastN.Apply: "idle", "call", "returned", "written"
    keepN,              \* KeepLastN.N
    memory,             \* the arrays behind the slices
    history,            \* the slice handed to Apply
    original,           \* the messages of that slice at the call
    managedHistory,     \* the slice Apply returned
    \* ---- TaskDelegator.Execute ----
    dpc,                \* position of TaskDelegator.Execute: "idle", "copy", "build", "run", "returned"
    subAgentCtx,        \* the store of the child agent (0: none)
    taskResult,         \* first return value of Execute
    taskErr,            \* second return value of Execute
    \* ---- the caller's context ----
    cancelled,          \* whether the context handed to Run is done
    waitingAtCancel,    \* isWaitingForJobs when it was cancelled
    \* ---- executeTool ----
    xpc,                \* position of executeTool: "idle", "select", "returned"
    elapsed,            \* time units since toolCtx was made
    runCtxDone,         \* whether the ctx handed to executeTool is done
    toolCtxErr,         \* toolCtx.Err()
    toolGor,            \* the goroutine running tool.Execute: "idle", "running", "sent"
    resultChan,         \* buffer of resultChan
    errChan,            \* buffer of errChan
    toolResult,         \* first return value of executeTool
    toolErr,            \* second return value of executeTool
    \* ---- LLMClient.Invoke ----
    ipc,                \* position of Invoke: "idle", "start", "call", "sleep", "returned", "panicked"
    maxRetries,         \* parameter of Invoke
    attempt,            \* i of the retry loop
    invCtxDone,         \* whether the ctx handed to Invoke is done
    callLog,            \* the calls of CreateChatCompletion made, with their outcomes
    invResp,            \* first return value of Invoke
    invErr,             \* second return value of Invoke
    caller              \* Run after the call: "blocked", "aborted", "continues"

runVars   == <<pc, maxIterations, messages, isWaitingForJobs, iterationCount,
               backgroundJobs, jobs, runResult, runErr>>
parVars   == <<ppc, tasks, loopIdx, wg, gor, results, errs, execText, execErr>>
ctxVars   == <<stores, heap, copyErr, calls>>
buildVars == <<bpc, toolConfs, agentTools, registry, buildErr>>
parseVars == <<jpc, llmResponse, parsedResponse>>
histVars == <<kpc, keepN, memory, history, original, managedHistory>>
delVars == <<dpc, subAgentCtx, taskResult, taskErr>>
cancelVars == <<cancelled, waitingAtCancel>>
execVars == <<xpc, elapsed, runCtxDone, toolCtxErr, toolGor, resultChan, errChan, toolResult, toolErr>>
invokeVars == <<ipc, maxRetries, attempt, invCtxDone, callLog, invResp, invErr, caller>>
vars      == <<runVars, parVars, ctxVars, buildVars, parseVars, histVars, delVars, cancelVars, execVars, invokeVars>>

(***************************************************************************)
(* Bounds of the model.                                                    *)
(***************************************************************************)
MaxIter == 3        \* largest maxIterations tried
MaxJobs == 2        \* background jobs one run may start

\* The nil error, as fmt's %v prints it.
NoErr == "<nil>"
\* The text Run returns when the iteration budget is spent.
Fallback == "max iterations reached, no answer found"

(***************************************************************************)
(* Agent.Run: messages                                                     *)
(***************************************************************************)
Message(role, content, msgType, job) ==
    [role |-> role, val |-> content, type |-> msgType, job |-> job]

addMessage(msgs, role, content, msgType, job) ==
    Append(msgs, Message(role, content, msgType, job))

(***************************************************************************)
(* The model's responses.  A response text is a sequence of tokens: the    *)
(* braces "{" and "}", "x" for any other character of prose, and one token *)
(* for the fields between the braces of a JSON object, named after the     *)
(* action / status (and run_in_background) they give.  parseLLMResponse    *)
(* turns a text into an action or fails.                                   *)
(***************************************************************************)
\* The two errors of parseLLMResponse (lines 222 and 230).
ErrNoObject == "no JSON object in the response"
ErrUnmarshal == "JSON of the response not parsed"

\* What parseLLMResponse returns: (nil, err) or (&parsedResponse, nil).
NoAction(err) ==
    [ok |-> FALSE, Action |-> "", Status |-> "", bg |-> FALSE, final |-> "", err |-> err]
Act(a, s, bg, f) ==
    [ok |-> TRUE, Action |-> a, Status |-> s, bg |-> bg, final |-> f, err |-> NoErr]

\* The fields of the JSON objects tried.
Fields ==
    { "finish/complete", "finish/continue", "finish/nostatus",
      "wait/continue", "wait/complete",
      "tool/continue", "tool/complete", "tool+bg/continue",
      "nosuch/continue" }

\* A JSON object with the given fields, and one whose action_input holds a
\* nested object.
Object(fields) == <<"{", fields, "}">>
ObjectNesting(fields) == <<"{", fields, "{", "}", "}">>

\* The texts the model answers with in a run: no JSON at all, or one object.
Responses == {<<"x">>} \cup {Object(f) : f \in Fields}

\* The LLMResponseAction (139-147) that the fields of an object decode to.
Decoded(fields) ==
    CASE fields = "finish/complete"  -> Act("finish", "complete", FALSE, "answer")
      [] fields = "finish/continue"  -> Act("finish", "continue", FALSE, "answer")
      [] fields = "finish/nostatus"  -> Act("finish", "", FALSE, "early")
      [] fields = "wait/continue"    -> Act("wait", "continue", FALSE, "")
      [] fields = "wait/complete"    -> Act("wait", "complete", FALSE, "")
      [] fields = "tool/continue"    -> Act("tool", "continue", FALSE, "")
      [] fields = "tool/complete"    -> Act("tool", "complete", FALSE, "")
      [] fields = "tool+bg/continue" -> Act("tool", "continue", TRUE, "")
      [] fields = "nosuch/continue"  -> Act("nosuch", "continue", FALSE, "")
      [] OTHER                       -> NoAction(ErrUnmarshal)

\* json.Unmarshal (line 228): succeeds on a text that is one JSON object and
\* nothing else (an object without fields leaves every field at its zero
\* value), and fails on every other text.
Unmarshal(jsonStr) ==
    IF \E f \in Fields : jsonStr \in {Object(f), ObjectNesting(f)}
    THEN Decoded(jsonStr[2])
    ELSE IF jsonStr = <<"{", "}">>
    THEN Act("", "", FALSE, "")
    ELSE NoAction(ErrUnmarshal)

\* strings.Index and strings.LastIndex: 0-based, -1 when the token is absent.
Index(text, token) ==
    IF \E i \in DOMAIN text : text[i] = token
    THEN (CHOOSE i \in DOMAIN text : text[i] = token /\ \A k \in 1..(i - 1) : text[k] # token) - 1
    ELSE -1
LastIndex(text, token) ==
    IF \E i \in DOMAIN text : text[i] = token
    THEN (CHOOSE i \in DOMAIN text : text[i] = token /\ \A k \in (i + 1)..Len(text) : text[k] # token) - 1
    ELSE -1

\* parseLLMResponse (217-234): the text from the first "{" to the last "}".
parseLLMResponse(responseText) ==
    LET start == Index(responseText, "{")
        end == LastIndex(responseText, "}")
    IN IF start = -1 \/ end = -1 \/ start > end
       THEN NoAction(ErrNoObject)
       ELSE Unmarshal(SubSeq(responseText, start + 1, end + 1))

\* Agent.tools: the registered tool names.
tools == {"tool"}

\* What a tool's Execute can return: (res, err).  A failing tool may return a
\* text with its error, as ParallelTaskDelegator does on a partial failure.
ToolOutcomes ==
    { [res |-> "ok", err |-> NoErr],
      [res |-> "partial", err |-> "E"] }


(***************************************************************************)
(* Jobs: a Job holds two channels of capacity 1; its worker goroutine      *)
(* runs the tool, sends the outcome on one of them, and then runs the two  *)
(* deferred closes (last deferred first).                                  *)
(***************************************************************************)
JobIds == 1..MaxJobs

NewChan == [buf |-> <<>>, closed |-> FALSE]

\* wpc: "none" (no such job yet), "exec" (tool.Execute running), "sent"
\* (outcome sent), "closedErr" (ErrChan closed), "closed" (both closed).
NoJob ==
    [ToolName |-> "", wpc |-> "none", out |-> [res |-> "", err |-> NoErr],
     ResultChan |-> NewChan, ErrChan |-> NewChan]

NewJob(toolName) ==
    [ToolName |-> toolName, wpc |-> "exec", out |-> [res |-> "", err |-> NoErr],
     ResultChan |-> NewChan, ErrChan |-> NewChan]

\* uuid.New(): an id no job of this run has.
FreshJobIds == {j \in JobIds : jobs[j].wpc = "none" /\ \A k \in JobIds : k < j => jobs[k].wpc # "none"}

\* A receive on a channel can proceed when a value is buffered or the channel is closed.
CanReceive(ch) == ch.buf # <<>> \/ ch.closed

\* The value a receive yields: the buffered value, or the zero value of a closed channel.
Received(ch, zero) == IF ch.buf # <<>> THEN Head(ch.buf) ELSE zero

AfterReceive(ch) == IF ch.buf # <<>> THEN [ch EXCEPT !.buf = Tail(@)] ELSE ch

\* The worker's send: the error on ErrChan when err != nil, else the result on ResultChan.
WorkerSend(job, o) ==
    IF o.err # NoErr
    THEN [job EXCEPT !.out = o, !.wpc = "sent", !.ErrChan.buf = Append(@, o.err)]
    ELSE [job EXCEPT !.out = o, !.wpc = "sent", !.ResultChan.buf = Append(@, o.res)]

WorkerExecute(j) ==
    /\ jobs[j].wpc = "exec"
    /\ \E o \in ToolOutcomes : jobs' = [jobs EXCEPT ![j] = WorkerSend(@, o)]
    /\ UNCHANGED <<pc, maxIterations, messages, isWaitingForJobs, iterationCount,
                   backgroundJobs, runResult, runErr>>

WorkerCloseErrChan(j) ==
    /\ jobs[j].wpc = "sent"
    /\ jobs' = [jobs EXCEPT ![j].ErrChan.closed = TRUE, ![j].wpc = "closedErr"]
    /\ UNCHANGED <<pc, maxIterations, messages, isWaitingForJobs, iterationCount,
                   backgroundJobs, runResult, runErr>>

WorkerCloseResultChan(j) ==
    /\ jobs[j].wpc = "closedErr"
    /\ jobs' = [jobs EXCEPT ![j].ResultChan.closed = TRUE, ![j].wpc = "closed"]
    /\ UNCHANGED <<pc, maxIterations, messages, isWaitingForJobs, iterationCount,
                   backgroundJobs, runResult, runErr>>

(***************************************************************************)
(* checkAndInjectBackgroundJobs: one select per tracked job.  Go's select  *)
(* picks any one of the cases that can proceed, and default only when none *)
(* can; the map is ranged over in an arbitrary order.                      *)
(***************************************************************************)
SelectCases(job) ==
    LET ready == (IF CanReceive(job.ResultChan) THEN {"result"} ELSE {})
                 \cup (IF CanReceive(job.ErrChan) THEN {"error"} ELSE {})
    IN IF ready = {} THEN {"default"} ELSE ready

InjectedMessage(j, job, case) ==
    IF case = "result"
    THEN Message("user", Received(job.ResultChan, ""), "background_tool_result", j)
    ELSE Message("user", Received(job.ErrChan, NoErr), "background_tool_error", j)

AfterSelect(job, case) ==
    CASE case = "result" -> [job EXCEPT !.ResultChan = AfterReceive(@)]
      [] case = "error"  -> [job EXCEPT !.ErrChan = AfterReceive(@)]
      [] OTHER           -> job

\* Mutant of Untrack: the drained job stays in the map.
UntrackForgotten(tracked, injected) == tracked

\* delete(a.backgroundJobs, jobID) for every job a case other than default ran for.
Untrack(tracked, injected) == tracked \ injected

Orders(S) == {o \in [1..Cardinality(S) -> S] : \A a, b \in DOMAIN o : a # b => o[a] # o[b]}

RECURSIVE InjectAll(_, _, _)
InjectAll(msgs, order, pick) ==
    IF order = <<>> THEN msgs
    ELSE LET j == Head(order)
             next == IF pick[j] = "default" THEN msgs
                     ELSE Append(msgs, InjectedMessage(j, jobs[j], pick[j]))
         IN InjectAll(next, Tail(order), pick)

\* Mutant of LoopCond: one iteration too many.
LoopCondOffByOne == iterationCount <= maxIterations

\* for iterationCount < a.maxIterations
LoopCond == iterationCount < maxIterations

\* Mutant of LoopIteration: the jobs are polled only while the agent waits for them.
LoopIterationPollsWhenWaiting ==
    /\ pc = "loop"
    /\ LoopCond
    /\ \E order \in Orders(backgroundJobs), pick \in [backgroundJobs -> {"result", "error", "default"}] :
         /\ \A j \in backgroundJobs :
              pick[j] \in (IF isWaitingForJobs THEN SelectCases(jobs[j]) ELSE {"default"})
         /\ LET injected == {j \in backgroundJobs : pick[j] # "default"}
                polled   == InjectAll(messages, order, pick)
                waiting  == IF injected # {} THEN FALSE ELSE isWaitingForJobs
                tracked  == Untrack(backgroundJobs, injected)
            IN /\ backgroundJobs' = tracked
               /\ jobs' = [j \in JobIds |->
                             IF j \in backgroundJobs THEN AfterSelect(jobs[j], pick[j]) ELSE jobs[j]]
               /\ IF waiting /\ Cardinality(tracked) > 0
                  THEN /\ messages' = polled
                       /\ isWaitingForJobs' = waiting
                       /\ UNCHANGED <<pc, iterationCount>>
                  ELSE /\ messages' = IF waiting
                                      THEN addMessage(polled, "user", "all jobs done, summarize", "system_note", 0)
                                      ELSE polled
                       /\ isWaitingForJobs' = FALSE
                       /\ iterationCount' = iterationCount + 1
                       /\ pc' = "invoke"
    /\ UNCHANGED <<maxIterations, runResult, runErr>>

\* Mutant of LoopIteration: a poll that finds the agent still waiting is
\* counted as an iteration.
LoopIterationCountsPolls ==
    /\ pc = "loop"
    /\ LoopCond
    /\ \E order \in Orders(backgroundJobs), pick \in [backgroundJobs -> {"result", "error", "default"}] :
         /\ \A j \in backgroundJobs : pick[j] \in SelectCases(jobs[j])
         /\ LET injected == {j \in backgroundJobs : pick[j] # "default"}
                polled   == InjectAll(messages, order, pick)
                waiting  == IF injected # {} THEN FALSE ELSE isWaitingForJobs
                tracked  == Untrack(backgroundJobs, injected)
            IN /\ backgroundJobs' = tracked
               /\ jobs' = [j \in JobIds |->
                             IF j \in backgroundJobs THEN AfterSelect(jobs[j], pick[j]) ELSE jobs[j]]
               /\ iterationCount' = iterationCount + 1
               /\ IF waiting /\ Cardinality(tracked) > 0
                  THEN /\ messages' = polled
                       /\ isWaitingForJobs' = waiting
                       /\ UNCHANGED pc
                  ELSE /\ messages' = IF waiting
                                      THEN addMessage(polled, "user", "all jobs done, summarize", "system_note", 0)
                                      ELSE polled
                       /\ isWaitingForJobs' = FALSE
                       /\ pc' = "invoke"
    /\ UNCHANGED <<maxIterations, runResult, runErr>>

\* Lines 367-384: the poll, the waiting check, and iterationCount++.
LoopIteration ==
    /\ pc = "loop"
    /\ LoopCond
    /\ \E order \in Orders(backgroundJobs), pick \in [backgroundJobs -> {"result", "error", "default"}] :
         /\ \A j \in backgroundJobs : pick[j] \in SelectCases(jobs[j])
         /\ LET injected == {j \in backgroundJobs : pick[j] # "default"}
                polled   == InjectAll(messages, order, pick)
                waiting  == IF injected # {} THEN FALSE ELSE isWaitingForJobs
                tracked  == Untrack(backgroundJobs, injected)
            IN /\ backgroundJobs' = tracked
               /\ jobs' = [j \in JobIds |->
                             IF j \in backgroundJobs THEN AfterSelect(jobs[j], pick[j]) ELSE jobs[j]]
               /\ IF waiting /\ Cardinality(tracked) > 0
                  THEN \* time.Sleep; continue
                       /\ messages' = polled
                       /\ isWaitingForJobs' = waiting
                       /\ UNCHANGED <<pc, iterationCount>>
                  ELSE /\ messages' = IF waiting
                                      THEN addMessage(polled, "user", "all jobs done, summarize", "system_note", 0)
                                      ELSE polled
                       /\ isWaitingForJobs' = FALSE
                       /\ iterationCount' = iterationCount + 1
                       /\ pc' = "invoke"
    /\ UNCHANGED <<maxIterations, runResult, runErr>>

\* NoOpStrategy.Apply (config.go 75-81), the strategy NewAgent sets (line 326)
\* and BuildAgent leaves in place: a new slice with the same messages.
NoOpStrategyApply(msgs) == [i \in 1..Len(msgs) |-> msgs[i]]

\* Lines 390-393: what Invoke is given: the role and the content of each
\* message of the managed history.  The content of a job's message names the job.
llmMsgs(managed) ==
    [i \in 1..Len(managed) |->
        [Role |-> managed[i].role, Content |-> <<managed[i].val, managed[i].job>>]]

\* Lines 386-393, read where the loop is about to call Invoke.
Prompt == llmMsgs(NoOpStrategyApply(messages))

\* Mutant of LoopExit: the spent budget is returned as an error.
LoopExitRaising ==
    /\ pc = "loop"
    /\ ~LoopCond
    /\ pc' = "done"
    /\ runResult' = ""
    /\ runErr' = Fallback
    /\ UNCHANGED <<maxIterations, messages, isWaitingForJobs, iterationCount,
                   backgroundJobs, jobs>>

\* Lines 464-465: the loop condition fails.
LoopExit ==
    /\ pc = "loop"
    /\ ~LoopCond
    /\ pc' = "done"
    /\ runResult' = Fallback
    /\ runErr' = NoErr
    /\ UNCHANGED <<maxIterations, messages, isWaitingForJobs, iterationCount,
                   backgroundJobs, jobs>>

(***************************************************************************)
(* Agent.Run: setup, model invocation and the dispatch of the action.      *)
(***************************************************************************)
ErrPrompt == "failed to build system prompt"
ErrInvoke == "failed to get LLM response"

\* Lines 354-362.  buildSystemPrompt fails when a tool's parameter schema is not JSON.
RunStart ==
    /\ pc = "start"
    /\ \E promptOK \in BOOLEAN :
         IF promptOK
         THEN /\ messages' = addMessage(addMessage(messages, "system", "prompt", "system_prompt", 0),
                                        "user", "input", "user_input", 0)
              /\ pc' = "loop"
              /\ UNCHANGED <<runResult, runErr>>
         ELSE /\ pc' = "done"
              /\ runResult' = ""
              /\ runErr' = ErrPrompt
              /\ UNCHANGED messages
    /\ isWaitingForJobs' = FALSE
    /\ iterationCount' = 0
    /\ UNCHANGED <<maxIterations, backgroundJobs, jobs>>

\* Lines 396-400: Invoke returns an error.
InvokeFail ==
    /\ pc = "invoke"
    /\ pc' = "done"
    /\ runResult' = ""
    /\ runErr' = ErrInvoke
    /\ UNCHANGED <<maxIterations, messages, isWaitingForJobs, iterationCount,
                   backgroundJobs, jobs>>

\* Line 402: the raw response is logged before it is parsed.
WithResponse(r) == addMessage(messages, "assistant", r, "llm_output", 0)

\* Line 414.
SignalsCompletion(action) ==
    action.Status = "complete" \/ (action.Action = "finish" /\ action.Status # "continue")

\* Line 407: the text that tells the model of the parse failure.
ParseErrorText(err) == "parse failed: " \o err

\* Mutant of ParseError: the parse failure is returned to the caller.
ParseErrorReturning ==
    /\ pc = "invoke"
    /\ \E r \in Responses :
         /\ ~parseLLMResponse(r).ok
         /\ messages' = WithResponse(r)
         /\ runErr' = parseLLMResponse(r).err
    /\ pc' = "done"
    /\ UNCHANGED <<maxIterations, isWaitingForJobs, iterationCount, backgroundJobs,
                   jobs, runResult>>

\* An assistant message whose action passes the test of line 414.
IsCompletionRequest(m) ==
    /\ m.role = "assistant"
    /\ parseLLMResponse(m.val).ok
    /\ SignalsCompletion(parseLLMResponse(m.val))

\* Lines 404-411.
ParseError ==
    /\ pc = "invoke"
    /\ \E r \in Responses :
         /\ ~parseLLMResponse(r).ok
         /\ messages' = addMessage(WithResponse(r), "user",
                                   ParseErrorText(parseLLMResponse(r).err), "parse_error", 0)
    /\ pc' = "loop"
    /\ UNCHANGED <<maxIterations, isWaitingForJobs, iterationCount, backgroundJobs,
                   jobs, runResult, runErr>>

\* Lines 414-420: completion requested while jobs are tracked.
FinishDeferred ==
    /\ pc = "invoke"
    /\ \E r \in Responses :
         /\ parseLLMResponse(r).ok
         /\ SignalsCompletion(parseLLMResponse(r))
         /\ messages' = addMessage(WithResponse(r), "user", "jobs still running", "system_note", 0)
    /\ Cardinality(backgroundJobs) > 0
    /\ isWaitingForJobs' = TRUE
    /\ pc' = "loop"
    /\ UNCHANGED <<maxIterations, iterationCount, backgroundJobs, jobs, runResult, runErr>>

\* The final_response of the first completion request in the log.
RECURSIVE FirstFinal(_)
FirstFinal(msgs) ==
    IF msgs = <<>> THEN ""
    ELSE IF /\ IsCompletionRequest(Head(msgs))
         THEN parseLLMResponse(Head(msgs).val).final
         ELSE FirstFinal(Tail(msgs))

\* Mutant of Finish: the text of the first completion request, kept from the
\* deferral, is returned.
FinishReturnsDeferred ==
    /\ pc = "invoke"
    /\ \E r \in Responses :
         /\ parseLLMResponse(r).ok
         /\ SignalsCompletion(parseLLMResponse(r))
         /\ messages' = WithResponse(r)
         /\ runResult' = FirstFinal(messages')
    /\ Cardinality(backgroundJobs) = 0
    /\ runErr' = NoErr
    /\ pc' = "done"
    /\ UNCHANGED <<maxIterations, isWaitingForJobs, iterationCount, backgroundJobs, jobs>>

\* Lines 414, 421-424: completion with no job tracked.
Finish ==
    /\ pc = "invoke"
    /\ \E r \in Responses :
         /\ parseLLMResponse(r).ok
         /\ SignalsCompletion(parseLLMResponse(r))
         /\ messages' = WithResponse(r)
         /\ runResult' = parseLLMResponse(r).final
    /\ Cardinality(backgroundJobs) = 0
    /\ runErr' = NoErr
    /\ pc' = "done"
    /\ UNCHANGED <<maxIterations, isWaitingForJobs, iterationCount, backgroundJobs, jobs>>

\* Mutant of Wait: the flag is not set when jobs are tracked.
WaitWithoutFlag ==
    /\ pc = "invoke"
    /\ \E r \in Responses :
         /\ parseLLMResponse(r).ok
         /\ ~SignalsCompletion(parseLLMResponse(r))
         /\ parseLLMResponse(r).Action = "wait"
         /\ IF Cardinality(backgroundJobs) > 0
            THEN messages' = WithResponse(r)
            ELSE messages' = addMessage(WithResponse(r), "user", "nothing to wait for", "system_warning", 0)
    /\ pc' = "loop"
    /\ UNCHANGED <<maxIterations, isWaitingForJobs, iterationCount, backgroundJobs, jobs, runResult, runErr>>

\* Lines 427-437.
Wait ==
    /\ pc = "invoke"
    /\ \E r \in Responses :
         /\ parseLLMResponse(r).ok
         /\ ~SignalsCompletion(parseLLMResponse(r))
         /\ parseLLMResponse(r).Action = "wait"
         /\ IF Cardinality(backgroundJobs) > 0
            THEN /\ isWaitingForJobs' = TRUE
                 /\ messages' = WithResponse(r)
            ELSE /\ messages' = addMessage(WithResponse(r), "user", "nothing to wait for", "system_warning", 0)
                 /\ UNCHANGED isWaitingForJobs
    /\ pc' = "loop"
    /\ UNCHANGED <<maxIterations, iterationCount, backgroundJobs, jobs, runResult, runErr>>

\* The action names a registered tool (line 439), after the tests of lines 414 and 427.
NamesTool(action) ==
    /\ action.ok
    /\ ~SignalsCompletion(action)
    /\ action.Action # "wait"
    /\ action.Action \in tools

\* Lines 441-443 and startBackgroundTask (468-502).
startBackgroundTask ==
    /\ pc = "invoke"
    /\ \E r \in Responses, j \in FreshJobIds :
         /\ NamesTool(parseLLMResponse(r))
         /\ parseLLMResponse(r).bg
         /\ jobs' = [jobs EXCEPT ![j] = NewJob(parseLLMResponse(r).Action)]
         /\ backgroundJobs' = backgroundJobs \cup {j}
         /\ messages' = addMessage(WithResponse(r), "user", "started", "tool_result", j)
    /\ pc' = "loop"
    /\ UNCHANGED <<maxIterations, isWaitingForJobs, iterationCount, runResult, runErr>>

\* What executeTool (532-561) can return: the tool's result, the tool's error, or
\* the error of the scope that ended first.
ErrTimeout == "timeout"

executeToolReturns ==
    { [res |-> IF o.err = NoErr THEN o.res ELSE "", err |-> o.err] : o \in ToolOutcomes }
    \cup { [res |-> "", err |-> ErrTimeout] }

\* Line 450: the rendering of a tool error.
ToolFailedText(err) == "tool failed: " \o err

\* Mutant of ExecuteToolSync: a tool error is returned by Run instead of rendered.
ExecuteToolSyncRaising ==
    /\ pc = "invoke"
    /\ \E r \in Responses, ret \in executeToolReturns :
         /\ NamesTool(parseLLMResponse(r))
         /\ ~parseLLMResponse(r).bg
         /\ IF ret.err # NoErr
            THEN /\ messages' = WithResponse(r)
                 /\ pc' = "done"
                 /\ runResult' = ""
                 /\ runErr' = ret.err
            ELSE /\ messages' = addMessage(WithResponse(r), "user", ret.res, "tool_result", 0)
                 /\ pc' = "loop"
                 /\ UNCHANGED <<runResult, runErr>>
    /\ UNCHANGED <<maxIterations, isWaitingForJobs, iterationCount, backgroundJobs, jobs>>

\* Lines 445-455: synchronous execution; an error is rendered into the message.
ExecuteToolSync ==
    /\ pc = "invoke"
    /\ \E r \in Responses, ret \in executeToolReturns :
         /\ NamesTool(parseLLMResponse(r))
         /\ ~parseLLMResponse(r).bg
         /\ messages' = addMessage(WithResponse(r), "user",
                                   IF ret.err # NoErr THEN ToolFailedText(ret.err) ELSE ret.res,
                                   "tool_result", 0)
    /\ pc' = "loop"
    /\ UNCHANGED <<maxIterations, isWaitingForJobs, iterationCount, backgroundJobs,
                   jobs, runResult, runErr>>

\* Mutant of getToolNames: the list is empty.
getToolNamesNone == {<<>>}

\* getToolNames (563-570): the keys of Agent.tools, in the order the map is
\* ranged over, which is arbitrary.
getToolNames == Orders(tools)

\* Line 458: the text naming the unknown tool and listing the tool names.
UnknownToolText(name, names) == [unknown |-> name, names |-> names]

\* Lines 456-461.
UnknownTool ==
    /\ pc = "invoke"
    /\ \E r \in Responses, names \in getToolNames :
         /\ parseLLMResponse(r).ok
         /\ ~SignalsCompletion(parseLLMResponse(r))
         /\ parseLLMResponse(r).Action # "wait"
         /\ parseLLMResponse(r).Action \notin tools
         /\ messages' = addMessage(WithResponse(r), "user",
                                   UnknownToolText(parseLLMResponse(r).Action, names),
                                   "tool_error", 0)
    /\ pc' = "loop"
    /\ UNCHANGED <<maxIterations, isWaitingForJobs, iterationCount, backgroundJobs,
                   jobs, runResult, runErr>>

(***************************************************************************)
(* Idle values of the parts a specification does not run.                  *)
(***************************************************************************)
RunIdle ==
    /\ pc = "idle" /\ maxIterations = 0 /\ messages = <<>> /\ isWaitingForJobs = FALSE
    /\ iterationCount = 0 /\ backgroundJobs = {} /\ jobs = <<>> /\ runResult = ""
    /\ runErr = NoErr

ParIdle ==
    /\ ppc = "idle" /\ tasks = <<>> /\ loopIdx = 0 /\ wg = 0 /\ gor = <<>>
    /\ results = <<>> /\ errs = <<>> /\ execText = <<>> /\ execErr = <<>>

CtxIdle == stores = <<>> /\ heap = <<>> /\ copyErr = FALSE /\ calls = 0

BuildIdle ==
    /\ bpc = "idle" /\ toolConfs = <<>> /\ agentTools = <<>> /\ registry = <<>>
    /\ buildErr = NoErr

ParseIdle == jpc = "idle" /\ llmResponse = <<>> /\ parsedResponse = <<>>

HistoryIdle == kpc = "idle" /\ keepN = 0 /\ memory = <<>> /\ history = <<>> /\ original = <<>> /\ managedHistory = <<>>

DelegateIdle == dpc = "idle" /\ subAgentCtx = 0 /\ taskResult = "" /\ taskErr = NoErr

CancelIdle == cancelled = FALSE /\ waitingAtCancel = FALSE

ExecIdle == xpc = "idle" /\ elapsed = 0 /\ runCtxDone = FALSE /\ toolCtxErr = NoErr /\ toolGor = "idle" /\ resultChan = <<>> /\ errChan = <<>> /\ toolResult = "" /\ toolErr = NoErr

InvokeIdle == ipc = "idle" /\ maxRetries = 0 /\ attempt = 0 /\ invCtxDone = FALSE /\ callLog = <<>> /\ invResp = "" /\ invErr = NoErr /\ caller = "blocked"

(***************************************************************************)
(* Specification of Agent.Run with its background workers.                 *)
(***************************************************************************)
\* NewAgent (318-337) with WithMaxIterations.
InitRun ==
    /\ pc = "start"
    /\ maxIterations \in 0..MaxIter
    /\ messages = <<>>
    /\ isWaitingForJobs = FALSE
    /\ iterationCount = 0
    /\ backgroundJobs = {}
    /\ jobs = [j \in JobIds |-> NoJob]
    /\ runResult = ""
    /\ runErr = NoErr

Init == InitRun /\ ParIdle /\ CtxIdle /\ BuildIdle /\ ParseIdle /\ HistoryIdle /\ DelegateIdle /\ CancelIdle /\ ExecIdle /\ InvokeIdle

notRun == <<parVars, ctxVars, buildVars, parseVars, histVars, delVars, cancelVars, execVars, invokeVars>>

Next ==
    \/ RunStart /\ UNCHANGED notRun
    \/ LoopIteration /\ UNCHANGED notRun
    \/ LoopExit /\ UNCHANGED notRun
    \/ InvokeFail /\ UNCHANGED notRun
    \/ ParseError /\ UNCHANGED notRun
    \/ FinishDeferred /\ UNCHANGED notRun
    \/ Finish /\ UNCHANGED notRun
    \/ Wait /\ UNCHANGED notRun
    \/ startBackgroundTask /\ UNCHANGED notRun
    \/ ExecuteToolSync /\ UNCHANGED notRun
    \/ UnknownTool /\ UNCHANGED notRun
    \/ \E j \in JobIds : WorkerExecute(j) /\ UNCHANGED notRun
    \/ \E j \in JobIds : WorkerCloseErrChan(j) /\ UNCHANGED notRun
    \/ \E j \in JobIds : WorkerCloseResultChan(j) /\ UNCHANGED notRun

Spec == Init /\ [][Next]_vars

(***************************************************************************)
(* ParallelTaskDelegator.Execute (src/pkg/tools/context.go, 243-317).      *)
(* Slices are indexed from 0 as in the source.  A text is a record of its  *)
(* format and the values formatted into it.                                *)
(***************************************************************************)
MaxTasks == 3       \* longest task list tried

\* A list element that is not a string.
NonString == "#not-a-string"
TaskInputs == {"T1", "T2", NonString}

Text(kind, no, of) == [kind |-> kind, no |-> no, of |-> of]
EmptyText == Text("empty", 0, "")
\* Line 257: "task #%d input invalid", i
InvalidInputText(i) == Text("invalid input", i, "")
\* The final text of the child agent run on a description.
ChildResult(description) == Text("child result", 0, description)
\* Line 285: "child agent failed: %v", err
RunFailedText == Text("child run failed", 0, "")

NilError == Text("nil", 0, "")
\* Lines 269, 278, 284: "task #%d: <stage> failed: %w", index
TaskError(index, stage) == Text("task error", index, stage)
\* Line 303: "error: %v", errs[i]
ErrorText(err) == Text("error", err.no, err.of)
\* Line 246.
InvalidTasksError == <<Text("invalid tasks", 0, "")>>

Indices == 0..(Len(tasks) - 1)

\* A goroutine: its position, its two arguments, and, once done, how it ended
\* and how many of the others were done before it.
NoGoroutine == [gpc |-> "none", index |-> 0, description |-> "", end |-> "none", rank |-> 0]

DoneBefore == Cardinality({g \in Indices : gor[g].gpc = "done"})

\* Mutant of StoreResult: results are kept in the order the children complete.
StoreResultInCompletionOrder(index, v) ==
    LET free == {k \in Indices : results[k] = EmptyText}
        k == IF free = {} THEN index ELSE CHOOSE m \in free : \A n \in free : m <= n
    IN [results EXCEPT ![k] = v]

\* results[index] = v
StoreResult(index, v) == [results EXCEPT ![index] = v]

\* errs[index] = e
StoreErr(index, e) == [errs EXCEPT ![index] = e]

\* Lines 244-253: the argument check and the two slices.
ExecuteCall ==
    /\ ppc = "call"
    /\ \E isList \in BOOLEAN :
         IF isList
         THEN /\ ppc' = "launch"
              /\ results' = [i \in Indices |-> EmptyText]
              /\ errs' = [i \in Indices |-> NilError]
              /\ gor' = [i \in Indices |-> NoGoroutine]
              /\ UNCHANGED <<execText, execErr>>
         ELSE /\ ppc' = "returned"
              /\ execText' = <<>>
              /\ execErr' = InvalidTasksError
              /\ UNCHANGED <<results, errs, gor>>
    /\ UNCHANGED <<tasks, loopIdx, wg>>

\* Lines 254-294: one turn of the launching loop.
Launch ==
    /\ ppc = "launch"
    /\ loopIdx < Len(tasks)
    /\ IF tasks[loopIdx + 1] = NonString
       THEN /\ results' = StoreResult(loopIdx, InvalidInputText(loopIdx))
            /\ UNCHANGED <<wg, gor>>
       ELSE /\ wg' = wg + 1
            /\ gor' = [gor EXCEPT ![loopIdx] =
                          [gpc |-> "copy", index |-> loopIdx,
                           description |-> tasks[loopIdx + 1], end |-> "none", rank |-> 0]]
            /\ UNCHANGED results
    /\ loopIdx' = loopIdx + 1
    /\ UNCHANGED <<ppc, tasks, errs, execText, execErr>>

\* A goroutine returns with an error at a stage: errs[index] is set, wg.Done is deferred.
GoFail(g, stage) ==
    /\ errs' = StoreErr(gor[g].index, TaskError(gor[g].index, stage))
    /\ gor' = [gor EXCEPT ![g].gpc = "done", ![g].end = stage, ![g].rank = DoneBefore]
    /\ wg' = wg - 1

\* Lines 267-271: p.baseCtx.Copy()
GoCopy(g) ==
    /\ ppc = "launch"
    /\ gor[g].gpc = "copy"
    /\ \E ok \in BOOLEAN :
         IF ok
         THEN /\ gor' = [gor EXCEPT ![g].gpc = "build"]
              /\ UNCHANGED <<errs, wg>>
         ELSE GoFail(g, "copy")
    /\ UNCHANGED <<ppc, tasks, loopIdx, results, execText, execErr>>

\* Lines 273-280: builder.BuildAgent
GoBuild(g) ==
    /\ ppc = "launch"
    /\ gor[g].gpc = "build"
    /\ \E ok \in BOOLEAN :
         IF ok
         THEN /\ gor' = [gor EXCEPT ![g].gpc = "run"]
              /\ UNCHANGED <<errs, wg>>
         ELSE GoFail(g, "build")
    /\ UNCHANGED <<ppc, tasks, loopIdx, results, execText, execErr>>

\* Lines 282-290: subAgent.Run
GoRun(g) ==
    /\ ppc = "launch"
    /\ gor[g].gpc = "run"
    /\ \E ok \in BOOLEAN :
         IF ok
         THEN /\ results' = StoreResult(gor[g].index, ChildResult(gor[g].description))
              /\ errs' = StoreErr(gor[g].index, NilError)
              /\ gor' = [gor EXCEPT ![g].gpc = "done", ![g].end = "ok", ![g].rank = DoneBefore]
              /\ wg' = wg - 1
         ELSE /\ GoFail(g, "run")
              /\ results' = StoreResult(gor[g].index, RunFailedText)
    /\ UNCHANGED <<ppc, tasks, loopIdx, execText, execErr>>

\* Mutant of WaitReturns: Execute does not wait for the children.
WaitReturnsAtOnce == TRUE

\* Line 296: wg.Wait() returns.
WaitReturns == wg = 0

\* Line 301: the label of the section of task i.
SectionLabel(i) == i + 1

\* Lines 300-309: the section of task i.
Section(i) ==
    [label |-> SectionLabel(i),
     body  |-> IF errs[i] # NilError THEN ErrorText(errs[i]) ELSE results[i]]

\* Lines 298-309: finalResult, in the order of the tasks.
finalResult == [p \in 1..Len(tasks) |-> Section(p - 1)]

\* Lines 299-305: aggregatedErrs, in the order of the tasks.
RECURSIVE aggregatedErrs(_)
aggregatedErrs(n) ==
    IF n = 0 THEN <<>>
    ELSE IF errs[n - 1] # NilError
         THEN Append(aggregatedErrs(n - 1), ErrorText(errs[n - 1]))
         ELSE aggregatedErrs(n - 1)

\* Lines 296-316: the join, the aggregation and the return.
ExecuteJoin ==
    /\ ppc = "launch"
    /\ loopIdx = Len(tasks)
    /\ WaitReturns
    /\ execText' = finalResult
    /\ execErr' = aggregatedErrs(Len(tasks))
    /\ ppc' = "returned"
    /\ UNCHANGED <<tasks, loopIdx, wg, gor, results, errs>>

RECURSIVE TaskLists(_)
TaskLists(n) ==
    IF n = 0 THEN {<<>>}
    ELSE TaskLists(n - 1) \cup {Append(l, t) : l \in {m \in TaskLists(n - 1) : Len(m) = n - 1}, t \in TaskInputs}

InitPar ==
    /\ ppc = "call"
    /\ tasks \in TaskLists(MaxTasks)
    /\ loopIdx = 0
    /\ wg = 0
    /\ gor = <<>>
    /\ results = <<>>
    /\ errs = <<>>
    /\ execText = <<>>
    /\ execErr = <<>>

InitParallel == RunIdle /\ InitPar /\ CtxIdle /\ BuildIdle /\ ParseIdle /\ HistoryIdle /\ DelegateIdle /\ CancelIdle /\ ExecIdle /\ InvokeIdle

notPar == <<runVars, ctxVars, buildVars, parseVars, histVars, delVars, cancelVars, execVars, invokeVars>>

NextParallel ==
    \/ ExecuteCall /\ UNCHANGED notPar
    \/ Launch /\ UNCHANGED notPar
    \/ \E g \in Indices : GoCopy(g) /\ UNCHANGED notPar
    \/ \E g \in Indices : GoBuild(g) /\ UNCHANGED notPar
    \/ \E g \in Indices : GoRun(g) /\ UNCHANGED notPar
    \/ ExecuteJoin /\ UNCHANGED notPar

SpecParallel == InitParallel /\ [][NextParallel]_vars

(***************************************************************************)
(* Context (src/pkg/tools/context.go, 10-116).  A store maps its keys to   *)
(* references; the heap holds the referenced values.  A value has an       *)
(* exported part, an unexported part, and may be one that gob cannot       *)
(* encode.  Values handed to Set are new values.                           *)
(***************************************************************************)
MaxStores == 3      \* Context objects
MaxCells == 4       \* values allocated
MaxCalls == 3       \* calls made on the stores

Keys == {"a", "b"}
NilRef == 0

\* NewContext (18-23).
NewContext == [data |-> <<>>, shallowCopyKeys |-> {}]

Value(pub, priv, encodable) == [pub |-> pub, priv |-> priv, encodable |-> encodable]

Has(c, key) == key \in DOMAIN stores[c].data

\* Get (40-46).
Get(c, key) == stores[c].data[key]

\* Lines 29-37: the assignments of Set, for a value that is nil or new.
SetValue(c, key, isNil, encodable, shallowCopy) ==
    LET ref == IF isNil THEN NilRef ELSE Len(heap) + 1
    IN /\ heap' = IF isNil THEN heap ELSE Append(heap, Value(1, 1, encodable))
       /\ stores' = [stores EXCEPT ![c] =
            [data |-> [k \in DOMAIN @.data \cup {key} |-> IF k = key THEN ref ELSE @.data[k]],
             shallowCopyKeys |-> IF shallowCopy THEN @.shallowCopyKeys \cup {key}
                                 ELSE @.shallowCopyKeys \ {key}]]

\* Set (25-38).
Set(c, key, shallowCopy) ==
    /\ \E isNil \in BOOLEAN, encodable \in BOOLEAN :
         /\ isNil \/ Len(heap) < MaxCells
         /\ isNil => encodable
         /\ SetValue(c, key, isNil, encodable, shallowCopy)
    /\ UNCHANGED copyErr

\* Delete (57-63).
Delete(c, key) ==
    /\ Has(c, key)
    /\ stores' = [stores EXCEPT ![c] =
         [data |-> [k \in DOMAIN @.data \ {key} |-> @.data[k]],
          shallowCopyKeys |-> @.shallowCopyKeys \ {key}]]
    /\ UNCHANGED <<heap, copyErr>>

\* A holder of store c changes, in place, the value it got for key.
Mutate(c, key) ==
    /\ Has(c, key)
    /\ Get(c, key) # NilRef
    /\ heap' = [heap EXCEPT ![Get(c, key)].pub = 3 - @]
    /\ UNCHANGED <<stores, copyErr>>

\* deepCopyValue (65-84): gob encodes the exported part only, and fails on a
\* value it cannot encode.
deepCopyValue(v) == Value(v.pub, 0, TRUE)

\* The keys of c whose values Copy duplicates, in a fixed order.
KeyOrder == <<"a", "b">>
Duplicated(c) ==
    SelectSeq(KeyOrder, LAMBDA k : Has(c, k) /\ k \notin stores[c].shallowCopyKeys
                                   /\ Get(c, k) # NilRef)
PositionIn(seq, k) == CHOOSE p \in DOMAIN seq : seq[p] = k

\* Mutant of CopiedRef: every entry is copied by reference.
CopiedRefShallow(c, key) == Get(c, key)

\* Lines 100-113: the reference the copy of c holds for key.
CopiedRef(c, key) ==
    IF key \in stores[c].shallowCopyKeys THEN Get(c, key)
    ELSE IF Get(c, key) = NilRef THEN NilRef
    ELSE Len(heap) + PositionIn(Duplicated(c), key)

\* Copy (86-116).
Copy(c) ==
    /\ Len(stores) < MaxStores
    /\ IF \E k \in DOMAIN stores[c].data :
            /\ k \notin stores[c].shallowCopyKeys
            /\ Get(c, k) # NilRef
            /\ ~heap[Get(c, k)].encodable
       THEN /\ copyErr' = TRUE
            /\ UNCHANGED <<stores, heap>>
       ELSE /\ Len(heap) + Len(Duplicated(c)) <= MaxCells
            /\ copyErr' = FALSE
            /\ heap' = heap \o [p \in DOMAIN Duplicated(c) |->
                                  deepCopyValue(heap[Get(c, Duplicated(c)[p])])]
            /\ stores' = Append(stores,
                 [data |-> [k \in DOMAIN stores[c].data |-> CopiedRef(c, k)],
                  shallowCopyKeys |-> stores[c].shallowCopyKeys])

\* What a caller's Set can leave under one key: [shared, isNil, encodable].
Entries ==
    {e \in [shared : BOOLEAN, isNil : BOOLEAN, encodable : BOOLEAN] : e.isNil => e.encodable}

\* The store and the heap after NewContext and one Set per key of a filling,
\* made in the order of KeyOrder.
FilledKeys(filling) == SelectSeq(KeyOrder, LAMBDA k : k \in DOMAIN filling /\ ~filling[k].isNil)
FilledStore(filling) ==
    [data |-> [k \in DOMAIN filling |->
                 IF filling[k].isNil THEN NilRef ELSE PositionIn(FilledKeys(filling), k)],
     shallowCopyKeys |-> {k \in DOMAIN filling : filling[k].shared}]
FilledHeap(filling) ==
    [p \in DOMAIN FilledKeys(filling) |-> Value(1, 1, filling[FilledKeys(filling)[p]].encodable)]

\* The root store of a run: a new Context its creator has filled.
InitCtx ==
    /\ \E present \in SUBSET Keys : \E filling \in [present -> Entries] :
         /\ stores = <<FilledStore(filling)>>
         /\ heap = FilledHeap(filling)
    /\ copyErr = FALSE
    /\ calls = 0

InitContext == RunIdle /\ ParIdle /\ InitCtx /\ BuildIdle /\ ParseIdle /\ HistoryIdle /\ DelegateIdle /\ CancelIdle /\ ExecIdle /\ InvokeIdle

notCtx == <<runVars, parVars, buildVars, parseVars, histVars, delVars, cancelVars, execVars, invokeVars>>

\* One more call, while the calls tried are not used up.
Called == calls < MaxCalls /\ calls' = calls + 1

NextContext ==
    \/ \E c \in DOMAIN stores, key \in Keys, shallowCopy \in BOOLEAN :
           Set(c, key, shallowCopy) /\ Called /\ UNCHANGED notCtx
    \/ \E c \in DOMAIN stores, key \in Keys : Delete(c, key) /\ Called /\ UNCHANGED notCtx
    \/ \E c \in DOMAIN stores, key \in Keys : Mutate(c, key) /\ Called /\ UNCHANGED notCtx
    \/ \E c \in DOMAIN stores : Copy(c) /\ Called /\ UNCHANGED notCtx

SpecContext == InitContext /\ [][NextContext]_vars

(***************************************************************************)
(* BuildAgent and the registry of the agent it returns                     *)
(* (specification SpecBuild).                                              *)
(***************************************************************************)
MaxTools == 3       \* longest AgentConfig.Tools tried

\* Names a tool reports by Name().
ToolNames == {"x", "y"}
NoName == ""

\* The entries of AgentConfig.Tools by the case of the type switch they take:
\* a tools.Tool, a reflect.Type whose instance is or is not a tools.Tool, an
\* AssistantConfig with or without a Constructor, and any other value.
ToolConfigs ==
    {[kind |-> k, name |-> n] : k \in {"tool", "type", "assistant"}, n \in ToolNames}
        \cup {[kind |-> "type", name |-> NoName],
              [kind |-> "assistant", name |-> NoName],
              [kind |-> "other", name |-> NoName]}

\* A tool instance: the name it reports and the config entry it came from.
ToolOf(tConf, position) == [name |-> tConf.name, conf |-> position]

\* The errors of BuildAgent, by the meaning of their texts.
ErrLogger == "setup logger failed"
ErrNotTool == "type does not implement tools.Tool"
ErrAssistant == "build assistant failed: assistant config has no constructor"
ErrUnsupported == "unsupported tool config type"

\* The config entry the loop of BuildAgent is at: every iteration that does not
\* return appends one tool.
AtConf == toolConfs[Len(agentTools) + 1]
InLoop == bpc = "loop" /\ Len(agentTools) < Len(toolConfs)

BuildFails(err) ==
    /\ bpc' = "failed"
    /\ buildErr' = err
    /\ UNCHANGED <<toolConfs, agentTools, registry>>

AppendTool ==
    /\ agentTools' = Append(agentTools, ToolOf(AtConf, Len(agentTools) + 1))
    /\ UNCHANGED <<bpc, toolConfs, registry, buildErr>>

\* setupLogger (35-66) fails: MkdirAll or OpenFile returned an error.
SetupLoggerFails == bpc = "start" /\ BuildFails(ErrLogger)

SetupLoggerOk ==
    /\ bpc = "start"
    /\ bpc' = "loop"
    /\ UNCHANGED <<toolConfs, agentTools, registry, buildErr>>

\* case tools.Tool
CaseTool == InLoop /\ AtConf.kind = "tool" /\ AppendTool

\* case reflect.Type
CaseType == InLoop /\ AtConf.kind = "type" /\ AtConf.name # NoName /\ AppendTool
CaseTypeNotTool == InLoop /\ AtConf.kind = "type" /\ AtConf.name = NoName /\ BuildFails(ErrNotTool)

\* case AssistantConfig, with buildAssistant
CaseAssistant == InLoop /\ AtConf.kind = "assistant" /\ AtConf.name # NoName /\ AppendTool
CaseAssistantNoConstructor ==
    InLoop /\ AtConf.kind = "assistant" /\ AtConf.name = NoName /\ BuildFails(ErrAssistant)

\* default
CaseDefault == InLoop /\ AtConf.kind = "other" /\ BuildFails(ErrUnsupported)

\* The map WithTools fills: a.tools[t.Name()] = t for each tool in order.
RECURSIVE WithTools(_)
WithTools(ts) ==
    IF ts = <<>> THEN <<>>
    ELSE LET before == WithTools(SubSeq(ts, 1, Len(ts) - 1))
             t == ts[Len(ts)]
         IN [n \in DOMAIN before \cup {t.name} |-> IF n = t.name THEN t ELSE before[n]]

\* NewAgent with the options of BuildAgent; BuildAgent returns the agent.
NewAgent ==
    /\ bpc = "loop"
    /\ Len(agentTools) = Len(toolConfs)
    /\ registry' = WithTools(agentTools)
    /\ bpc' = "built"
    /\ UNCHANGED <<toolConfs, agentTools, buildErr>>

InitBuild ==
    /\ bpc = "start"
    /\ toolConfs \in UNION {[1..n -> ToolConfigs] : n \in 0..MaxTools}
    /\ agentTools = <<>>
    /\ registry = <<>>
    /\ buildErr = NoErr

InitBuildAgent == RunIdle /\ ParIdle /\ CtxIdle /\ InitBuild /\ ParseIdle /\ HistoryIdle /\ DelegateIdle /\ CancelIdle /\ ExecIdle /\ InvokeIdle

notBuild == <<runVars, parVars, ctxVars, parseVars, histVars, delVars, cancelVars, execVars, invokeVars>>

NextBuild ==
    \/ SetupLoggerFails /\ UNCHANGED notBuild
    \/ SetupLoggerOk /\ UNCHANGED notBuild
    \/ CaseTool /\ UNCHANGED notBuild
    \/ CaseType /\ UNCHANGED notBuild
    \/ CaseTypeNotTool /\ UNCHANGED notBuild
    \/ CaseAssistant /\ UNCHANGED notBuild
    \/ CaseAssistantNoConstructor /\ UNCHANGED notBuild
    \/ CaseDefault /\ UNCHANGED notBuild
    \/ NewAgent /\ UNCHANGED notBuild

SpecBuild == InitBuildAgent /\ [][NextBuild]_vars

(***************************************************************************)
(* parseLLMResponse applied to model output: a JSON object with prose      *)
(* before and after it, or prose alone (specification SpecParse).          *)
(***************************************************************************)
MaxProse == 2       \* tokens of prose on either side

\* Prose: any characters, braces among them.
ProseTokens == {"x", "{", "}"}
Prose == UNION {[1..n -> ProseTokens] : n \in 0..MaxProse}

Objects == {Object(f) : f \in Fields} \cup {ObjectNesting(f) : f \in Fields}

Embedded(lead, object, trail) == lead \o object \o trail

InitParseCall ==
    /\ jpc = "call"
    /\ llmResponse \in {Embedded(lead, object, trail) :
                           lead \in Prose, object \in Objects \cup {<<>>}, trail \in Prose}
    /\ parsedResponse = <<>>

\* Line 404: action, err := a.jsonOutputLLM.parseLLMResponse(llmResponse.Content)
ParseCall ==
    /\ jpc = "call"
    /\ parsedResponse' = parseLLMResponse(llmResponse)
    /\ jpc' = "returned"
    /\ UNCHANGED llmResponse

InitParse == RunIdle /\ ParIdle /\ CtxIdle /\ BuildIdle /\ InitParseCall /\ HistoryIdle /\ DelegateIdle /\ CancelIdle /\ ExecIdle /\ InvokeIdle

notParse == <<runVars, parVars, ctxVars, buildVars, histVars, delVars, cancelVars, execVars, invokeVars>>

NextParse == ParseCall /\ UNCHANGED notParse

SpecParse == InitParse /\ [][NextParse]_vars

(***************************************************************************)
(* KeepLastN.Apply (src/pkg/llmclient/config.go, package history), on      *)
(* slices over arrays, so that a returned slice can share the array of     *)
(* its argument or not (specification SpecHistory).                        *)
(***************************************************************************)
MaxMsgs == 4        \* longest message sequence tried

MessageTexts == {"a", "b"}
Overwritten == "w"

\* A slice: its array, the offset of its first element, its length.
Slice(arr, off, len) == [arr |-> arr, off |-> off, len |-> len]
Contents(sl) == [i \in 1..sl.len |-> memory[sl.arr][sl.off + i]]

\* messages[start:]
SliceFrom(sl, start) == Slice(sl.arr, sl.off + start, sl.len - start)

\* Mutant of makeCopy: the slice itself is returned.
makeCopyAliased(sl) == [memory |-> memory, slice |-> sl]

\* make([]types.Message, len(sl)) and copy(copiedMessages, sl): the memory
\* with the new array, and the slice over it.
makeCopy(sl) ==
    [memory |-> Append(memory, Contents(sl)),
     slice |-> Slice(Len(memory) + 1, 0, sl.len)]

\* KeepLastN.Apply (91-105), as the memory after it and the slice it returns.
Apply(n, msgs) ==
    IF n <= 0 \/ n >= msgs.len
    THEN makeCopy(msgs)
    ELSE LET start == msgs.len - n
             truncated == SliceFrom(msgs, start)
         IN makeCopy(truncated)

InitApply ==
    /\ kpc = "call"
    /\ keepN \in (-1)..(MaxMsgs + 1)
    /\ original \in UNION {[1..n -> MessageTexts] : n \in 0..MaxMsgs}
    /\ memory = <<original>>
    /\ history = Slice(1, 0, Len(original))
    /\ managedHistory = <<>>

\* managedHistory := a.historyStrategy.Apply(a.messages)
ApplyCall ==
    /\ kpc = "call"
    /\ memory' = Apply(keepN, history).memory
    /\ managedHistory' = Apply(keepN, history).slice
    /\ kpc' = "returned"
    /\ UNCHANGED <<keepN, history, original>>

\* The caller assigns to an element of the slice it got.
WriteReturned ==
    /\ kpc = "returned"
    /\ \E i \in 1..managedHistory.len :
         memory' = [memory EXCEPT ![managedHistory.arr][managedHistory.off + i] = Overwritten]
    /\ kpc' = "written"
    /\ UNCHANGED <<keepN, history, original, managedHistory>>

InitHistory == RunIdle /\ ParIdle /\ CtxIdle /\ BuildIdle /\ ParseIdle /\ InitApply /\ DelegateIdle /\ CancelIdle /\ ExecIdle /\ InvokeIdle

notHistory == <<runVars, parVars, ctxVars, buildVars, parseVars, delVars, cancelVars, execVars, invokeVars>>

NextHistory ==
    \/ ApplyCall /\ UNCHANGED notHistory
    \/ WriteReturned /\ UNCHANGED notHistory

SpecHistory == InitHistory /\ [][NextHistory]_vars

(***************************************************************************)
(* A run whose tool is a TaskDelegator (src/pkg/tools/context.go, 174-198) *)
(* executed synchronously: Execute copies the parent's Context (store 1),  *)
(* builds the child agent on the copy and runs it (specification           *)
(* SpecDelegate).  Execute returns before the timeout of executeTool.      *)
(***************************************************************************)
MaxDelegations == 1 \* delegations one run makes
MaxChildCalls == 1  \* calls the child agents make on their stores

\* The store the delegator was constructed with.
baseCtx == 1

\* The key setupLogger sets (line 53).
LogDirKey == "agent_log_dir"

\* The errors of Execute, by the meaning of their texts.
ErrTaskArg == "task is not a string"
ErrTaskCopy == "child context failed"
ErrTaskBuild == "child build failed"
ErrTaskRun(err) == "child run failed: " \o err

\* What the child's Run can return: a final response, the fallback text, or
\* one of the two errors of Run.
ChildReturns ==
    { [res |-> "answer", err |-> NoErr], [res |-> Fallback, err |-> NoErr],
      [res |-> "", err |-> ErrPrompt], [res |-> "", err |-> ErrInvoke] }

\* Lines 445-447: the loop calls executeTool, which calls Execute.  The call is
\* tried while the model has room for one more copy of the store.
DelegateCall ==
    /\ pc = "invoke"
    /\ dpc = "idle"
    /\ Len(stores) <= MaxDelegations
    /\ Len(stores) < MaxStores
    /\ Len(heap) + Len(Duplicated(baseCtx)) <= MaxCells
    /\ \E r \in Responses :
         /\ NamesTool(parseLLMResponse(r))
         /\ ~parseLLMResponse(r).bg
         /\ messages' = WithResponse(r)
    /\ pc' = "tool"
    /\ dpc' = "copy"
    /\ taskResult' = ""
    /\ taskErr' = NoErr
    /\ UNCHANGED <<maxIterations, isWaitingForJobs, iterationCount, backgroundJobs,
                   jobs, runResult, runErr, subAgentCtx, ctxVars>>

TaskFails(err) ==
    /\ dpc' = "returned"
    /\ taskResult' = ""
    /\ taskErr' = err

\* Lines 176-179.
TaskArgInvalid ==
    /\ dpc = "copy"
    /\ TaskFails(ErrTaskArg)
    /\ UNCHANGED <<runVars, ctxVars, subAgentCtx>>

\* Lines 181-184.
TaskCopy ==
    /\ dpc = "copy"
    /\ Copy(baseCtx)
    /\ IF copyErr'
       THEN TaskFails(ErrTaskCopy) /\ UNCHANGED subAgentCtx
       ELSE /\ dpc' = "build"
            /\ subAgentCtx' = Len(stores')
            /\ UNCHANGED <<taskResult, taskErr>>
    /\ UNCHANGED <<runVars, calls>>

\* Lines 186-190, BuildAgent on the child's store: setupLogger fails before or
\* after its Set of line 53, or a tool config is rejected, or the agent is built.
TaskBuild ==
    /\ dpc = "build"
    /\ \E hasSet \in BOOLEAN, built \in BOOLEAN :
         /\ built => hasSet
         /\ IF hasSet
            THEN SetValue(subAgentCtx, LogDirKey, FALSE, TRUE, FALSE)
            ELSE UNCHANGED <<stores, heap>>
         /\ IF built
            THEN dpc' = "run" /\ UNCHANGED <<taskResult, taskErr>>
            ELSE TaskFails(ErrTaskBuild)
    /\ UNCHANGED <<runVars, copyErr, calls, subAgentCtx>>

\* The child agent's tools use the child's store while it runs.
ChildUsesContext ==
    /\ dpc = "run"
    /\ \/ \E key \in Keys, shallowCopy \in BOOLEAN : Set(subAgentCtx, key, shallowCopy)
       \/ \E key \in Keys : Delete(subAgentCtx, key)
       \/ \E key \in Keys : Mutate(subAgentCtx, key)
    /\ calls < MaxChildCalls
    /\ calls' = calls + 1
    /\ UNCHANGED <<runVars, delVars>>

\* Lines 192-197.
TaskRun ==
    /\ dpc = "run"
    /\ \E ret \in ChildReturns :
         IF ret.err # NoErr
         THEN TaskFails(ErrTaskRun(ret.err))
         ELSE /\ dpc' = "returned"
              /\ taskResult' = ret.res
              /\ taskErr' = NoErr
    /\ UNCHANGED <<runVars, ctxVars, subAgentCtx>>

\* Mutant of DelegateReturn: the delegator's error is returned by Run.
DelegateReturnAborting ==
    /\ pc = "tool"
    /\ dpc = "returned"
    /\ IF taskErr # NoErr
       THEN /\ pc' = "done"
            /\ runResult' = ""
            /\ runErr' = taskErr
            /\ UNCHANGED messages
       ELSE /\ messages' = addMessage(messages, "user", taskResult, "tool_result", 0)
            /\ pc' = "loop"
            /\ UNCHANGED <<runResult, runErr>>
    /\ dpc' = "idle"
    /\ UNCHANGED <<maxIterations, isWaitingForJobs, iterationCount, backgroundJobs,
                   jobs, subAgentCtx, taskResult, taskErr, ctxVars>>

\* Lines 447-455: executeTool returns what Execute returned; an error is
\* rendered into the tool_result message.
DelegateReturn ==
    /\ pc = "tool"
    /\ dpc = "returned"
    /\ messages' = addMessage(messages, "user",
                              IF taskErr # NoErr THEN ToolFailedText(taskErr) ELSE taskResult,
                              "tool_result", 0)
    /\ pc' = "loop"
    /\ dpc' = "idle"
    /\ UNCHANGED <<maxIterations, isWaitingForJobs, iterationCount, backgroundJobs,
                   jobs, runResult, runErr, subAgentCtx, taskResult, taskErr, ctxVars>>

\* The parent's store at the start of the run: a new Context with at most one
\* entry, of any kind.
InitBaseCtx ==
    /\ \E present \in {S \in SUBSET Keys : Cardinality(S) <= 1} :
         \E filling \in [present -> Entries] :
             /\ stores = <<FilledStore(filling)>>
             /\ heap = FilledHeap(filling)
    /\ copyErr = FALSE
    /\ calls = 0

InitDelegate ==
    /\ InitRun /\ maxIterations <= MaxDelegations + 1
    /\ ParIdle /\ InitBaseCtx /\ BuildIdle /\ ParseIdle /\ HistoryIdle
    /\ DelegateIdle /\ CancelIdle /\ ExecIdle /\ InvokeIdle

notRunCtx == <<parVars, buildVars, parseVars, histVars, cancelVars, execVars, invokeVars>>
notDelegate == <<parVars, ctxVars, buildVars, parseVars, histVars, delVars, cancelVars, execVars, invokeVars>>

NextDelegate ==
    \/ RunStart /\ UNCHANGED notDelegate
    \/ LoopIteration /\ UNCHANGED notDelegate
    \/ LoopExit /\ UNCHANGED notDelegate
    \/ InvokeFail /\ UNCHANGED notDelegate
    \/ Finish /\ UNCHANGED notDelegate
    \/ DelegateCall /\ UNCHANGED notRunCtx
    \/ TaskArgInvalid /\ UNCHANGED notRunCtx
    \/ TaskCopy /\ UNCHANGED notRunCtx
    \/ TaskBuild /\ UNCHANGED notRunCtx
    \/ ChildUsesContext /\ UNCHANGED notRunCtx
    \/ TaskRun /\ UNCHANGED notRunCtx
    \/ DelegateReturn /\ UNCHANGED notRunCtx

SpecDelegate == InitDelegate /\ [][NextDelegate]_vars

(***************************************************************************)
(* Agent.Run under a context its caller can cancel (specification          *)
(* SpecCancel).  Run never looks at its context itself: Invoke returns the *)
(* context's error once it is done (client.go, 80-91), and the tools are   *)
(* handed scopes derived from it.                                          *)
(***************************************************************************)
MaxCancelIter == 3  \* largest maxIterations tried with cancellation
MaxCancelJobs == 1  \* background jobs one run may start with cancellation

\* Mutant of JobCtxParent: the job's scope is derived from context.Background().
JobCtxParentBackground == "background"

\* Line 475: jobCtx, cancel := context.WithCancel(ctx).
JobCtxParent == "run"

\* Done() of a context derived from the given parent; Job.CancelFunc is never called.
DerivedDone(parent) == parent = "run" /\ cancelled

\* The scope of job j is done.
JobCtxDone(j) == jobs[j].wpc # "none" /\ DerivedDone(JobCtxParent)

\* The caller cancels the context.
Cancel ==
    /\ ~cancelled
    /\ pc # "done"
    /\ cancelled' = TRUE
    /\ waitingAtCancel' = (pc = "loop" /\ isWaitingForJobs)
    /\ UNCHANGED <<runVars, parVars, ctxVars, buildVars, parseVars, histVars, delVars, execVars, invokeVars>>

\* Invoke returned a response (client.go, 82-87): the request was not aborted.
Responded == ~cancelled

StartedJobs == Cardinality({j \in JobIds : jobs[j].wpc # "none"})

\* The steps of the goroutine that runs Run: the loop head, Invoke, and the
\* handlers that end the run or start and wait for jobs.
RunSteps ==
    \/ RunStart /\ UNCHANGED notRun
    \/ LoopIteration /\ UNCHANGED notRun
    \/ LoopExit /\ UNCHANGED notRun
    \/ InvokeFail /\ UNCHANGED notRun
    \/ Responded /\ FinishDeferred /\ UNCHANGED notRun
    \/ Responded /\ Finish /\ UNCHANGED notRun
    \/ Responded /\ Wait /\ UNCHANGED notRun
    \/ Responded /\ StartedJobs < MaxCancelJobs /\ startBackgroundTask /\ UNCHANGED notRun

\* The tool of job j returns because its scope is done.
ToolHonoursCancel(j) == JobCtxDone(j) /\ WorkerExecute(j) /\ UNCHANGED notRun

\* The deferred closes of the worker of job j.
WorkerCloses(j) ==
    \/ WorkerCloseErrChan(j) /\ UNCHANGED notRun
    \/ WorkerCloseResultChan(j) /\ UNCHANGED notRun

InitCancel ==
    /\ InitRun /\ maxIterations <= MaxCancelIter
    /\ ParIdle /\ CtxIdle /\ BuildIdle /\ ParseIdle /\ HistoryIdle /\ DelegateIdle
    /\ CancelIdle /\ ExecIdle /\ InvokeIdle

NextCancel ==
    \/ RunSteps
    \/ \E j \in JobIds : WorkerExecute(j) /\ UNCHANGED notRun
    \/ \E j \in JobIds : WorkerCloses(j)
    \/ Cancel

\* Run's goroutine and the workers' deferred closes keep going; a tool returns
\* once its scope is done.
FairCancel ==
    /\ WF_vars(RunSteps)
    /\ \A j \in JobIds : WF_vars(ToolHonoursCancel(j))
    /\ \A j \in JobIds : WF_vars(WorkerCloses(j))

SpecCancel == InitCancel /\ [][NextCancel]_vars /\ FairCancel

(***************************************************************************)
(* executeTool (src/pkg/builder/builder.go, 532-561): one synchronous call *)
(* of a tool under a scope with a deadline (specification SpecExec).  Time *)
(* passes in units of one second.                                          *)
(***************************************************************************)
ToolTimeout == 300      \* line 534: 300*time.Second

DeadlineExceeded == "context deadline exceeded"
Canceled == "context canceled"

\* Line 559: the error of the Done case, wrapping toolCtx.Err().
TimeoutError(cause) == ErrTimeout \o ": " \o cause

\* context.WithTimeout(ctx, ...) (line 534): the scope is done, once and for
\* all, with the first of: its parent is done, its deadline has passed.
ScopeErr(parentDone, deadlinePassed, err) ==
    CASE err # NoErr    -> err
      [] parentDone     -> Canceled
      [] deadlinePassed -> DeadlineExceeded
      [] OTHER          -> NoErr

\* Lines 534-548: the scope is made and the goroutine launched; the caller's
\* context may be done already.
InitExecuteTool ==
    /\ xpc = "select"
    /\ elapsed = 0
    /\ runCtxDone \in BOOLEAN
    /\ toolCtxErr = ScopeErr(runCtxDone, FALSE, NoErr)
    /\ toolGor = "running"
    /\ resultChan = <<>>
    /\ errChan = <<>>
    /\ toolResult = ""
    /\ toolErr = NoErr

\* A second passes.
Tick ==
    /\ elapsed < ToolTimeout
    /\ elapsed' = elapsed + 1
    /\ toolCtxErr' = ScopeErr(runCtxDone, elapsed' >= ToolTimeout, toolCtxErr)
    /\ UNCHANGED <<xpc, runCtxDone, toolGor, resultChan, errChan, toolResult, toolErr>>

\* The caller of Run cancels its context.
CancelRun ==
    /\ ~runCtxDone
    /\ runCtxDone' = TRUE
    /\ toolCtxErr' = ScopeErr(TRUE, elapsed >= ToolTimeout, toolCtxErr)
    /\ UNCHANGED <<xpc, elapsed, toolGor, resultChan, errChan, toolResult, toolErr>>

\* What tool.Execute(toolCtx, args) can return: an outcome of its own, or the
\* error of its scope once that is done.
ToolReturns ==
    ToolOutcomes \cup (IF toolCtxErr # NoErr THEN {[res |-> "", err |-> toolCtxErr]} ELSE {})

\* Lines 542-548: the goroutine sends what Execute returned; both channels
\* have room for it.
ToolGoroutine ==
    /\ toolGor = "running"
    /\ \E o \in ToolReturns :
         IF o.err # NoErr
         THEN errChan' = Append(errChan, o.err) /\ UNCHANGED resultChan
         ELSE resultChan' = Append(resultChan, o.res) /\ UNCHANGED errChan
    /\ toolGor' = "sent"
    /\ UNCHANGED <<xpc, elapsed, runCtxDone, toolCtxErr, toolResult, toolErr>>

\* The deferred cancel() of line 536.
AfterCancel(err) == IF err = NoErr THEN Canceled ELSE err

\* Lines 551-553.
SelectResult ==
    /\ xpc = "select"
    /\ resultChan # <<>>
    /\ toolResult' = Head(resultChan)
    /\ toolErr' = NoErr
    /\ resultChan' = Tail(resultChan)
    /\ toolCtxErr' = AfterCancel(toolCtxErr)
    /\ xpc' = "returned"
    /\ UNCHANGED <<elapsed, runCtxDone, toolGor, errChan>>

\* Lines 554-556.
SelectErr ==
    /\ xpc = "select"
    /\ errChan # <<>>
    /\ toolResult' = ""
    /\ toolErr' = Head(errChan)
    /\ errChan' = Tail(errChan)
    /\ toolCtxErr' = AfterCancel(toolCtxErr)
    /\ xpc' = "returned"
    /\ UNCHANGED <<elapsed, runCtxDone, toolGor, resultChan>>

\* Lines 557-560.
SelectDone ==
    /\ xpc = "select"
    /\ toolCtxErr # NoErr
    /\ toolResult' = ""
    /\ toolErr' = TimeoutError(toolCtxErr)
    /\ xpc' = "returned"
    /\ UNCHANGED <<elapsed, runCtxDone, toolCtxErr, toolGor, resultChan, errChan>>

\* Lines 449-455 of Run: the content of the tool_result message.
RenderedToolResult == IF toolErr # NoErr THEN ToolFailedText(toolErr) ELSE toolResult

InitExec ==
    /\ RunIdle /\ ParIdle /\ CtxIdle /\ BuildIdle /\ ParseIdle /\ HistoryIdle
    /\ DelegateIdle /\ CancelIdle /\ InitExecuteTool /\ InvokeIdle

notExec == <<runVars, parVars, ctxVars, buildVars, parseVars, histVars, delVars, cancelVars, invokeVars>>

NextExec ==
    \/ Tick /\ UNCHANGED notExec
    \/ CancelRun /\ UNCHANGED notExec
    \/ ToolGoroutine /\ UNCHANGED notExec
    \/ SelectResult /\ UNCHANGED notExec
    \/ SelectErr /\ UNCHANGED notExec
    \/ SelectDone /\ UNCHANGED notExec

SpecExec == InitExec /\ [][NextExec]_vars

(***************************************************************************)
(* LLMClient.Invoke (src/pkg/llmclient/client.go, 50-106) and the test of  *)
(* its error in Run (specification SpecInvoke).                            *)
(***************************************************************************)
MaxRetries == 3     \* largest maxRetries tried; Run passes 3 (builder.go, line 396)

ErrProvider == "provider not configured"
ErrUnrecoverable == "unrecoverable API error"
ErrRetries == "failed to get response from LLM after retries"

\* What CreateChatCompletion (line 80) returns when the scope is not done: a
\* response with a choice, a response whose Choices is empty, an APIError
\* with a status from 400 to 499, an APIError with another status, or an
\* error that is no APIError.
CallOutcomes == {"ok", "no choices", "4xx", "5xx", "network"}

\* The outcome of a call whose scope is done before or while it is made.
ScopeDone == "scope done"

Transient == {"5xx", "network"}

InitInvokeCall ==
    /\ ipc = "start"
    /\ maxRetries \in 1..MaxRetries
    /\ attempt = 0
    /\ invCtxDone \in BOOLEAN
    /\ callLog = <<>>
    /\ invResp = ""
    /\ invErr = NoErr
    /\ caller = "blocked"

InvokeReturns(resp, err) ==
    /\ ipc' = "returned"
    /\ invResp' = resp
    /\ invErr' = err

\* for i := 0; i < maxRetries; i++ : the test of the loop.
RetryLoop(i) ==
    IF i < maxRetries
    THEN ipc' = "call" /\ UNCHANGED <<invResp, invErr>>
    ELSE InvokeReturns("", ErrRetries)

\* Lines 52-71.
InvokeStart ==
    /\ ipc = "start"
    /\ \E configured \in BOOLEAN :
         IF configured THEN RetryLoop(attempt) ELSE InvokeReturns("", ErrProvider)
    /\ UNCHANGED <<maxRetries, attempt, invCtxDone, callLog, caller>>

\* The caller of Run cancels the context while Invoke runs.
CancelInvoke ==
    /\ ipc \in {"start", "call", "sleep"}
    /\ ~invCtxDone
    /\ invCtxDone' = TRUE
    /\ UNCHANGED <<ipc, maxRetries, attempt, callLog, invResp, invErr, caller>>

\* Lines 82-97: what follows a call that returned out, with the scope done or
\* not at the test of line 89.  resp.Choices[0] of a response without a choice
\* is an index out of range.
AfterCall(out, done) ==
    CASE out = "ok"         -> InvokeReturns("content", NoErr)
      [] out = "no choices" -> ipc' = "panicked" /\ UNCHANGED <<invResp, invErr>>
      [] done               -> InvokeReturns("", Canceled)
      [] out = "4xx"        -> InvokeReturns("", ErrUnrecoverable)
      [] OTHER              -> ipc' = "sleep" /\ UNCHANGED <<invResp, invErr>>

\* Lines 74-97: one call of CreateChatCompletion.  A call under a scope that
\* is done fails at once; the scope may also end during the call, which then
\* fails, or between its failure and the test of line 89.
Call ==
    /\ ipc = "call"
    /\ \E out \in CallOutcomes \cup {ScopeDone}, late \in BOOLEAN :
         /\ invCtxDone => (out = ScopeDone /\ ~late)
         /\ late => out \in Transient \cup {"4xx"}
         /\ invCtxDone' = (invCtxDone \/ out = ScopeDone \/ late)
         /\ callLog' = Append(callLog, [out |-> out, scopeDoneBefore |-> invCtxDone])
         /\ AfterCall(out, invCtxDone')
    /\ UNCHANGED <<maxRetries, attempt, caller>>

\* Lines 99-103 and i++: the back-off sleep, which does not watch the scope.
SleepEnds ==
    /\ ipc = "sleep"
    /\ attempt' = attempt + 1
    /\ RetryLoop(attempt')
    /\ UNCHANGED <<maxRetries, invCtxDone, callLog, caller>>

\* builder.go, lines 396-402: Run returns on an error of Invoke.
RunTestsErr ==
    /\ ipc = "returned"
    /\ caller = "blocked"
    /\ caller' = IF invErr # NoErr THEN "aborted" ELSE "continues"
    /\ UNCHANGED <<ipc, maxRetries, attempt, invCtxDone, callLog, invResp, invErr>>

InitInvoke ==
    /\ RunIdle /\ ParIdle /\ CtxIdle /\ BuildIdle /\ ParseIdle /\ HistoryIdle
    /\ DelegateIdle /\ CancelIdle /\ ExecIdle /\ InitInvokeCall

notInvoke ==
    <<runVars, parVars, ctxVars, buildVars, parseVars, histVars, delVars, cancelVars, execVars>>

NextInvoke ==
    \/ InvokeStart /\ UNCHANGED notInvoke
    \/ CancelInvoke /\ UNCHANGED notInvoke
    \/ Call /\ UNCHANGED notInvoke
    \/ SleepEnds /\ UNCHANGED notInvoke
    \/ RunTestsErr /\ UNCHANGED notInvoke

SpecInvoke == InitInvoke /\ [][NextInvoke]_vars

(***************************************************************************)
(* Agent.Run when every invocation returns and every job's tool returns    *)
(* (specification SpecLive).  Of the handlers that append a message and go *)
(* on to the next iteration (lines 404-411, 433-436, 445-461), which       *)
(* differ in the message only, the run takes ParseError and Wait.          *)
(***************************************************************************)
MaxLiveIter == 3    \* largest maxIterations tried under fairness
MaxLiveJobs == 1    \* background jobs one run may start under fairness

\* The steps of Run's goroutine that wait for nothing but the scheduler: the
\* setup, the head of the loop with its poll, and the return after the loop.
RunLocalSteps ==
    \/ RunStart /\ UNCHANGED notRun
    \/ LoopIteration /\ UNCHANGED notRun
    \/ LoopExit /\ UNCHANGED notRun

\* Invoke returns, and Run handles what it returned.
InvokeReturnSteps ==
    \/ InvokeFail /\ UNCHANGED notRun
    \/ ParseError /\ UNCHANGED notRun
    \/ FinishDeferred /\ UNCHANGED notRun
    \/ Finish /\ UNCHANGED notRun
    \/ Wait /\ UNCHANGED notRun
    \/ StartedJobs < MaxLiveJobs /\ startBackgroundTask /\ UNCHANGED notRun

\* The tool of job j returns.
ToolReturnsStep(j) == WorkerExecute(j) /\ UNCHANGED notRun

InitLive == Init /\ maxIterations <= MaxLiveIter

NextLive ==
    \/ RunLocalSteps
    \/ InvokeReturnSteps
    \/ \E j \in JobIds : ToolReturnsStep(j)
    \/ \E j \in JobIds : WorkerCloses(j)

\* Run's goroutine keeps going, every invocation returns, and so does every
\* job's tool.
FairLive ==
    /\ WF_vars(RunLocalSteps)
    /\ WF_vars(InvokeReturnSteps)
    /\ \A j \in JobIds : WF_vars(ToolReturnsStep(j))

SpecLive == InitLive /\ [][NextLive]_vars /\ FairLive

(***************************************************************************)
(* Properties of Agent.Run (specification Spec).                           *)
(***************************************************************************)
IsInjection(m) == m.type \in {"background_tool_result", "background_tool_error"}
IsStarted(m)   == m.type = "tool_result" /\ m.job # 0
IsDeferral(m)  == m.type = "system_note" /\ m.val = "jobs still running"
IsAssistant(m) == m.role = "assistant"

Injections(j) == {i \in DOMAIN messages : IsInjection(messages[i]) /\ messages[i].job = j}
Invocations   == Cardinality({i \in DOMAIN messages : IsAssistant(messages[i])})

\* The jobs tracked when message d was appended.
TrackedAt(d) ==
    {j \in JobIds : /\ \E i \in 1..(d - 1) : IsStarted(messages[i]) /\ messages[i].job = j
                    /\ \A i \in 1..(d - 1) : i \notin Injections(j)}

\* C1: when completion is requested while jobs are tracked, Run does not return
\* before every one of those jobs has been drained: a run that returned a text
\* has, after each "jobs still running" note, an injected outcome for every job
\* that was tracked at the note.
C1_FinishWaitsForJobs ==
    (pc = "done" /\ runErr = NoErr) =>
        \A d \in DOMAIN messages :
            IsDeferral(messages[d]) =>
                \A j \in TrackedAt(d) : \E k \in Injections(j) : k > d

\* C2: the worker writes exactly one of {result, error}, and every injected
\* job message is of the kind of the worker's outcome and carries its value.
C2_DrainReportsWorkerOutcome ==
    /\ \A j \in JobIds :
         jobs[j].wpc \in {"sent", "closedErr", "closed"} =>
             Len(jobs[j].ResultChan.buf) + Len(jobs[j].ErrChan.buf) <= 1
    /\ \A i \in DOMAIN messages :
         IsInjection(messages[i]) =>
             LET o == jobs[messages[i].job].out
             IN IF o.err = NoErr
                THEN messages[i].type = "background_tool_result" /\ messages[i].val = o.res
                ELSE messages[i].type = "background_tool_error" /\ messages[i].val = o.err

\* C3, in every state: a job whose worker has produced no outcome is tracked and
\* has no injected message; a job is tracked exactly while it has none; no job
\* ever has two.
JobLifecycleInv ==
    \A j \in JobIds :
        /\ Cardinality(Injections(j)) <= 1
        /\ jobs[j].wpc = "none" => (j \notin backgroundJobs /\ Injections(j) = {})
        /\ jobs[j].wpc = "exec" => (j \in backgroundJobs /\ Injections(j) = {})
        /\ jobs[j].wpc # "none" => (j \in backgroundJobs <=> Injections(j) = {})

\* C3, in every poll (a step of the loop head that leaves the workers alone): a
\* tracked job with no outcome ready stays tracked and gets no message, one with
\* an outcome ready gets exactly one message and leaves the tracking set.
JobLifecycleStep ==
    (pc = "loop" /\ pc' \in {"loop", "invoke"} /\ \A j \in JobIds : jobs'[j].wpc = jobs[j].wpc) =>
        /\ Len(messages') >= Len(messages)
        /\ \A j \in backgroundJobs :
             IF jobs[j].wpc = "exec"
             THEN j \in backgroundJobs' /\ Injections(j)' = {}
             ELSE j \notin backgroundJobs' /\ Cardinality(Injections(j)') = 1

\* C3: the job lifecycle: nothing is injected before the outcome, exactly one
\* message at the first poll after it, and never a second one.
C3_JobLifecycle == []JobLifecycleInv /\ [][JobLifecycleStep]_vars

\* C3 witness: a job was drained, its channels are both closed, and a later poll
\* has run (a model response follows the injected message) without a second message.
C3_Witness ==
    \E j \in JobIds :
        /\ jobs[j].wpc = "closed"
        /\ j \notin backgroundJobs
        /\ \E i \in Injections(j), k \in DOMAIN messages :
             k > i /\ IsAssistant(messages[k]) /\ pc = "invoke"

\* Every invocation of the model returned a response: Run was not aborted by
\* prompt construction or by Invoke.
ModelAnswered == runErr \notin {ErrPrompt, ErrInvoke}

NeverStatusComplete ==
    \A i \in DOMAIN messages :
        IsAssistant(messages[i]) => parseLLMResponse(messages[i].val).Status # "complete"

NeverSignalsCompletion ==
    \A i \in DOMAIN messages :
        IsAssistant(messages[i]) =>
            ~(parseLLMResponse(messages[i].val).ok /\ SignalsCompletion(parseLLMResponse(messages[i].val)))

FeedbackTypeAfter(i) == IF i < Len(messages) THEN messages[i + 1].type ELSE "none"

Logged == messages'[Len(messages) + 1]
ActsOnResponse == pc = "invoke" /\ Len(messages') > Len(messages)

\* The action reaches the registry lookup of line 439 and is not found there.
NamesUnknownTool(action) ==
    /\ action.ok
    /\ ~SignalsCompletion(action)
    /\ action.Action # "wait"
    /\ action.Action \notin tools

\* C11: when the action names a tool that is not registered, the step appends,
\* after the response, exactly one message, a tool_error listing exactly the
\* registered tool names; it starts no job and runs no tool, leaves the waiting
\* flag and the tracked jobs as they were, and goes on to the next iteration.
UnknownToolStep ==
    (ActsOnResponse /\ NamesUnknownTool(parseLLMResponse(Logged.val))) =>
        /\ Len(messages') = Len(messages) + 2
        /\ SubSeq(messages', 1, Len(messages)) = messages
        /\ LET m == messages'[Len(messages) + 2]
           IN /\ m.role = "user" /\ m.type = "tool_error"
              /\ m.val.unknown = parseLLMResponse(Logged.val).Action
              /\ {m.val.names[i] : i \in DOMAIN m.val.names} = tools
              /\ Len(m.val.names) = Cardinality(tools)
        /\ jobs' = jobs
        /\ backgroundJobs' = backgroundJobs
        /\ isWaitingForJobs' = isWaitingForJobs
        /\ iterationCount' = iterationCount
        /\ pc' = "loop"
        /\ UNCHANGED <<runResult, runErr>>

LastResponse ==
    IF \E i \in DOMAIN messages : IsAssistant(messages[i])
    THEN CHOOSE i \in DOMAIN messages :
             IsAssistant(messages[i]) /\ \A k \in (i + 1)..Len(messages) : ~IsAssistant(messages[k])
    ELSE 0

\* The response logged as message k put the loop into waiting-for-jobs: it
\* asked to wait or to finish while jobs were tracked.
EnteredWaitingAt(k) ==
    LET action == parseLLMResponse(messages[k].val)
    IN /\ action.ok
       /\ SignalsCompletion(action) \/ action.Action = "wait"
       /\ TrackedAt(k) # {}

IsSummaryNote(m) == m.type = "system_note" /\ m.val = "all jobs done, summarize"

\* C16: a run that entered waiting-for-jobs and saw all its tracked jobs
\* complete has appended the "all jobs done, summarize" note before it invokes
\* the model again.
C16_SummaryNoteAfterDrain ==
    (pc = "invoke" /\ LastResponse # 0 /\ EnteredWaitingAt(LastResponse) /\ backgroundJobs = {}) =>
        \E i \in (LastResponse + 1)..Len(messages) : IsSummaryNote(messages[i])

\* An action that breaks the protocol: status complete with an action other
\* than finish, an action other than finish without status continue, or
\* finish with status continue.
BreaksProtocol(action) ==
    \/ action.Status = "complete" /\ action.Action # "finish"
    \/ action.Action # "finish" /\ action.Status # "continue"
    \/ action.Action = "finish" /\ action.Status = "continue"

\* C17: a response that parses but breaks the protocol is answered with a
\* parse_error message and nothing else: it is never acted on as a finish, a
\* wait or a tool call.
C17_ProtocolViolationIsParseError ==
    \A i \in DOMAIN messages :
        (/\ IsAssistant(messages[i])
         /\ parseLLMResponse(messages[i].val).ok
         /\ BreaksProtocol(parseLLMResponse(messages[i].val))) =>
            /\ i < Len(messages)
            /\ messages[i + 1].type = "parse_error"

\* C18: on a parse failure the step appends, after the response, exactly one
\* message, a parse_error that tells the failure; the waiting flag, the
\* tracked jobs and the jobs themselves are as they were, no tool has run,
\* Run has not returned, and the loop is at its head for the next iteration.
ParseFailureStep ==
    (ActsOnResponse /\ ~parseLLMResponse(Logged.val).ok) =>
        /\ Len(messages') = Len(messages) + 2
        /\ SubSeq(messages', 1, Len(messages)) = messages
        /\ messages'[Len(messages) + 2] =
               Message("user", ParseErrorText(parseLLMResponse(Logged.val).err), "parse_error", 0)
        /\ jobs' = jobs
        /\ backgroundJobs' = backgroundJobs
        /\ isWaitingForJobs' = isWaitingForJobs
        /\ iterationCount' = iterationCount
        /\ pc' = "loop"
        /\ UNCHANGED <<runResult, runErr>>

C18_ParseFailure == [][ParseFailureStep]_vars

\* C18 witness: a response without a JSON object was answered with the
\* parse_error while a job was tracked, and the loop is at its head again.
C18_Witness ==
    /\ pc = "loop"
    /\ backgroundJobs # {}
    /\ Len(messages) >= 2
    /\ messages[Len(messages)] = Message("user", ParseErrorText(ErrNoObject), "parse_error", 0)
    /\ IsAssistant(messages[Len(messages) - 1])

\* The tracked jobs with an outcome to receive when the loop polls.
ReadyAtPoll == {j \in backgroundJobs : SelectCases(jobs[j]) # {"default"}}

\* The messages a step has appended.
Appended == (DOMAIN messages') \ (DOMAIN messages)

\* A step of Run's goroutine at the head of the loop (the workers' steps, which
\* move a worker on, are not): the poll of lines 367-370 and what follows it.
PollStep ==
    (pc = "loop" /\ LoopCond /\ \A j \in JobIds : jobs'[j].wpc = jobs[j].wpc) =>
        /\ SubSeq(messages', 1, Len(messages)) = messages
        /\ \A j \in ReadyAtPoll :
             /\ j \notin backgroundJobs'
             /\ \E i \in Appended :
                  /\ IsInjection(messages'[i]) /\ messages'[i].job = j
                  /\ Injections(j)' = Injections(j) \cup {i}
                  /\ pc' = "invoke"
                  /\ Prompt'[i] = [Role |-> "user", Content |-> <<messages'[i].val, j>>]
        /\ \A j \in backgroundJobs \ ReadyAtPoll :
             j \in backgroundJobs' /\ Injections(j)' = Injections(j)
        /\ \A i \in Appended : IsInjection(messages'[i]) /\ messages'[i].job \in ReadyAtPoll
        /\ pc' = "invoke" => (iterationCount' = iterationCount + 1 /\ Len(Prompt') = Len(messages'))
        /\ pc' \in {"loop", "invoke"}

AskedToWait ==
    \E i \in DOMAIN messages :
        \/ IsDeferral(messages[i])
        \/ IsAssistant(messages[i]) /\ parseLLMResponse(messages[i].val).Action = "wait"

InvocationsStarted ==
    Invocations + (IF pc = "invoke" \/ runErr = ErrInvoke THEN 1 ELSE 0)

BudgetInv ==
    /\ iterationCount = InvocationsStarted
    /\ iterationCount <= maxIterations

\* The agent waits for jobs, some are tracked and none has an outcome to receive.
WaitingOnJobs ==
    /\ pc = "loop" /\ LoopCond
    /\ isWaitingForJobs
    /\ backgroundJobs # {}
    /\ ReadyAtPoll = {}

BudgetStep ==
    /\ iterationCount' # iterationCount =>
           /\ iterationCount' = iterationCount + 1
           /\ pc = "loop" /\ pc' = "invoke"
           /\ InvocationsStarted' = InvocationsStarted + 1
    /\ (WaitingOnJobs /\ \A j \in JobIds : jobs'[j].wpc = jobs[j].wpc) =>
           UNCHANGED <<pc, iterationCount, messages, isWaitingForJobs, backgroundJobs,
                       runResult, runErr>>

\* C20: iterationCount is the number of calls of Invoke started and is at most
\* maxIterations; it changes only by one, in the step that goes on to call
\* Invoke; and a poll made while the agent waits for tracked jobs of which none
\* is ready changes neither the counter nor the log, and calls nothing.
C20_WaitingConsumesNoBudget == []BudgetInv /\ [][BudgetStep]_vars

\* C20 witness: the agent waits at the head of the loop for a job whose tool
\* still runs, with budget left and the counter at the number of responses.
C20_Witness ==
    /\ WaitingOnJobs
    /\ iterationCount = Invocations
    /\ iterationCount >= 2
    /\ \E j \in backgroundJobs : jobs[j].wpc = "exec"

\* The step has logged a response that parses into the given action name.
ActsOnAction(name) ==
    /\ ActsOnResponse
    /\ parseLLMResponse(Logged.val).ok
    /\ parseLLMResponse(Logged.val).Action = name

\* C21: when the parsed action is wait, with a job tracked the step sets the
\* waiting flag and appends nothing after the response; with no job tracked it
\* appends one warning and leaves the flag as it was; in both cases Run has not
\* returned, has no error, and the loop is at its head.
WaitStep ==
    ActsOnAction("wait") =>
        /\ SubSeq(messages', 1, Len(messages)) = messages
        /\ IF backgroundJobs # {}
           THEN /\ isWaitingForJobs'
                /\ Len(messages') = Len(messages) + 1
           ELSE /\ isWaitingForJobs' = isWaitingForJobs
                /\ Len(messages') = Len(messages) + 2
                /\ messages'[Len(messages) + 2].role = "user"
                /\ messages'[Len(messages) + 2].type = "system_warning"
        /\ pc' = "loop"
        /\ UNCHANGED <<backgroundJobs, jobs, iterationCount, runResult, runErr>>

C21_WaitAction == [][WaitStep]_vars

\* C22: when the parsed action names a registered tool, the step either starts
\* a job or runs the tool itself.  With run_in_background true it tracks
\* exactly one job more, under an id no job had, appends the started message
\* for that job, and is back at the head of the loop while the job's tool still
\* runs; without it the step appends the tool_result of the call it made and no
\* job is created.
ToolDispatchStep ==
    (ActsOnResponse /\ parseLLMResponse(Logged.val).ok
                    /\ parseLLMResponse(Logged.val).Action \in tools) =>
        /\ SubSeq(messages', 1, Len(messages)) = messages
        /\ Len(messages') = Len(messages) + 2
        /\ messages'[Len(messages) + 2].type = "tool_result"
        /\ IF parseLLMResponse(Logged.val).bg
           THEN \E j \in JobIds :
                  /\ jobs[j].wpc = "none"
                  /\ jobs' = [jobs EXCEPT ![j] = NewJob(parseLLMResponse(Logged.val).Action)]
                  /\ jobs'[j].wpc = "exec"
                  /\ backgroundJobs' = backgroundJobs \cup {j}
                  /\ IsStarted(messages'[Len(messages) + 2])
                  /\ messages'[Len(messages) + 2].job = j
           ELSE /\ jobs' = jobs
                /\ backgroundJobs' = backgroundJobs
                /\ ~IsStarted(messages'[Len(messages) + 2])
        /\ pc' = "loop"
        /\ UNCHANGED <<isWaitingForJobs, iterationCount, runResult, runErr>>

C22_BackgroundDispatch == [][ToolDispatchStep]_vars

\* Run has returned a final response: a text with a nil error that is not the
\* text of the spent budget.
ReturnedFinal == pc = "done" /\ runErr = NoErr /\ runResult # Fallback

FinalResponseInv ==
    ReturnedFinal =>
        /\ backgroundJobs = {}
        /\ IsCompletionRequest(messages[Len(messages)])
        /\ runResult = parseLLMResponse(messages[Len(messages)].val).final

FinalResponseStep ==
    /\ (pc # "done" /\ ReturnedFinal') =>
           /\ ActsOnResponse
           /\ Len(messages') = Len(messages) + 1
           /\ IsCompletionRequest(Logged)
           /\ backgroundJobs = {} /\ backgroundJobs' = {}
           /\ runResult' = parseLLMResponse(Logged.val).final
    /\ (ActsOnResponse /\ IsCompletionRequest(Logged) /\ backgroundJobs # {}) =>
           /\ pc' = "loop"
           /\ UNCHANGED <<runResult, runErr>>

\* C26: Run returns a final response only in the step that logs a completion
\* request while no job is tracked, and the text is the final_response of that
\* request; a completion request logged while jobs are tracked returns
\* nothing, and its final_response is not what a later return gives.
C26_FinalResponseOfLastAction == []FinalResponseInv /\ [][FinalResponseStep]_vars

\* C26 witness: a completion request with the final_response "early" was
\* deferred, and Run later returned the "answer" of another one.
C26_Witness ==
    /\ ReturnedFinal
    /\ runResult = "answer"
    /\ \E d \in DOMAIN messages :
         /\ d < Len(messages)
         /\ IsCompletionRequest(messages[d])
         /\ parseLLMResponse(messages[d].val).final = "early"
         /\ IsDeferral(messages[d + 1])

NoAdjacentAssistants ==
    \A i \in DOMAIN messages :
        (i < Len(messages) /\ messages[i].role = "assistant") => messages[i + 1].role = "user"

\* Where Invoke is called or under way, the last message of the log is not
\* the previous response.
UserMessageBeforeInvoke ==
    pc = "invoke" => /\ messages # <<>>
                     /\ messages[Len(messages)].role = "user"

AppendOnly ==
    /\ Len(messages') >= Len(messages)
    /\ \A i \in DOMAIN messages : messages'[i] = messages[i]

\* C27: the log only grows; no two assistant messages are adjacent; and every
\* invocation of the model finds a user-role message at the end of the log,
\* also after the loop has waited for jobs.
C27_Alternation ==
    /\ [](NoAdjacentAssistants /\ UserMessageBeforeInvoke)
    /\ [][AppendOnly]_vars

\* C27 witness: the model asked to wait with a job tracked, the loop waited,
\* a job's outcome was injected, and the model was invoked again.
C27_Witness ==
    \E i \in DOMAIN messages :
        /\ i + 2 <= Len(messages)
        /\ messages[i].role = "assistant"
        /\ parseLLMResponse(messages[i].val).ok
        /\ parseLLMResponse(messages[i].val).Action = "wait"
        /\ ~SignalsCompletion(parseLLMResponse(messages[i].val))
        /\ IsInjection(messages[i + 1])
        /\ messages[i + 2].role = "assistant"

\* The jobs whose tool returned a text together with an error.
PartiallyFailed == {j \in JobIds : jobs[j].out.err # NoErr /\ jobs[j].out.res # ""}

\* The messages that carry what a tool returned.
ToolMessageTypes == {"tool_result", "background_tool_result", "background_tool_error"}

\* No message of the log carries the text a tool returned with an error.
TextDiscarded ==
    \A i \in DOMAIN messages :
        messages[i].type \in ToolMessageTypes =>
            \A o \in ToolOutcomes : o.err # NoErr => messages[i].val # o.res

\* The outcome of a partially failed job is injected as its error.
ErrorRendered ==
    \A j \in PartiallyFailed : \A i \in Injections(j) :
        /\ messages[i].type = "background_tool_error"
        /\ messages[i].val = jobs[j].out.err

\* A synchronous call logs the tool's result or the rendering of an error.
SyncErrorRendered ==
    (/\ ActsOnResponse
     /\ Len(messages') = Len(messages) + 2
     /\ messages'[Len(messages')].type = "tool_result"
     /\ backgroundJobs' = backgroundJobs) =>
        \E ret \in executeToolReturns :
            messages'[Len(messages')].val = IF ret.err # NoErr THEN ToolFailedText(ret.err) ELSE ret.res

\* C28: when a tool returns a text with an error, the log gets the error only:
\* the tool_result of a synchronous call renders the error, the outcome of a
\* background job is injected as background_tool_error with the error, and
\* the returned text is in no message.
C28_ErrorOnly ==
    /\ [](TextDiscarded /\ ErrorRendered)
    /\ [][SyncErrorRendered]_vars

(***************************************************************************)
(* Properties of termination (specification SpecLive).                     *)
(***************************************************************************)
\* Run has returned the final_response of the completion action it has just logged.
ReturnedCompletion ==
    /\ messages # <<>>
    /\ IsAssistant(messages[Len(messages)])
    /\ parseLLMResponse(messages[Len(messages)].val).ok
    /\ SignalsCompletion(parseLLMResponse(messages[Len(messages)].val))
    /\ runResult = parseLLMResponse(messages[Len(messages)].val).final

\* A run whose invocations all returned a response has returned, after at most
\* maxIterations of them, a completion's text or the fallback text.
TerminalInv ==
    (pc = "done" /\ ModelAnswered) =>
        /\ runErr = NoErr
        /\ Invocations <= maxIterations
        /\ runResult = Fallback \/ ReturnedCompletion

\* Run's goroutine can make a step that changes something.
RunCanStep == ENABLED <<RunLocalSteps \/ InvokeReturnSteps>>_vars

\* Run has not returned and its goroutine can change nothing only while it
\* polls, in waiting-for-jobs, tracked jobs whose tools have not returned.
BlockedOnlyWaiting == (pc # "done" /\ ~RunCanStep) => WaitingOnJobs

\* C25: when every invocation returns and every job's tool returns, Run
\* returns; when it has, with a response from every invocation, it has made at
\* most maxIterations invocations and returns a completion's final_response or
\* the fallback text; and the only state in which Run has not returned and
\* makes no progress is the poll in waiting-for-jobs for tools that have not
\* returned.
C25_Termination ==
    /\ []TerminalInv
    /\ []BlockedOnlyWaiting
    /\ <>(pc = "done")

\* C25 witness: a run that asked to finish with a job tracked, waited, had the
\* job's outcome injected, and returned.
C25_Witness ==
    /\ pc = "done"
    /\ runErr = NoErr
    /\ runResult = Fallback \/ ReturnedCompletion
    /\ \E d \in DOMAIN messages :
         IsDeferral(messages[d]) /\ \E j \in JobIds : \E k \in Injections(j) : k > d

(***************************************************************************)
(* Properties of ParallelTaskDelegator.Execute (specification              *)
(* SpecParallel).                                                          *)
(***************************************************************************)
\* Execute returned for a task list (not with the error of line 246).
Aggregated == ppc = "returned" /\ execErr # InvalidTasksError

\* What became of task i: the text of its child, or the stage it failed at.
OutcomeInSection(i, body) ==
    CASE tasks[i + 1] = NonString -> body = InvalidInputText(i)
      [] gor[i].end = "ok"        -> body = ChildResult(tasks[i + 1])
      [] OTHER                    -> body.kind = "error" /\ body.of = gor[i].end

\* C5: the aggregated output has one section per task, labeled 1..N in input
\* order, and section i holds the outcome of task i, whatever the order in
\* which the children completed.
C5_SectionsInInputOrder ==
    Aggregated =>
        /\ Len(execText) = Len(tasks)
        /\ \A i \in Indices :
             /\ execText[i + 1].label = i + 1
             /\ OutcomeInSection(i, execText[i + 1].body)

\* C5 witness: three tasks whose children completed in the reverse of the input
\* order, and the output is aggregated.
C5_Witness ==
    /\ Aggregated
    /\ Len(tasks) = 3
    /\ tasks[1] = "T1" /\ tasks[2] = "T2" /\ tasks[3] = "T1"
    /\ \A i \in Indices : gor[i].end = "ok"
    /\ gor[2].rank = 0 /\ gor[1].rank = 1 /\ gor[0].rank = 2

\* C6, in every state: Execute returns only when every launched child is done,
\* and a child that ran to its end has its own result in its own slot.
JoinInv ==
    /\ Aggregated => (wg = 0 /\ \A i \in Indices : gor[i].gpc \in {"none", "done"})
    /\ Aggregated => \A i \in Indices : tasks[i + 1] # NonString => gor[i].gpc = "done"
    /\ ppc \in {"launch", "returned"} /\ execErr # InvalidTasksError =>
         \A i \in Indices :
             gor[i].end = "ok" => (results[i] = ChildResult(tasks[i + 1]) /\ errs[i] = NilError)

\* C6, in every step: a child that moves (fails or not) leaves every sibling,
\* its result and its error as they were.
SiblingStep ==
    \A g \in Indices :
        (ppc = "launch" /\ ppc' = "launch" /\ gor[g].gpc # "none" /\ gor'[g] # gor[g]) =>
            \A h \in Indices \ {g} :
                /\ gor[h].gpc # "none" => gor'[h] = gor[h]
                /\ results'[h] = results[h]
                /\ errs'[h] = errs[h]

\* C6: every child is joined before Execute returns, and no failure aborts or
\* alters a sibling.
C6_JoinAndIsolation == []JoinInv /\ [][SiblingStep]_vars

\* C6 witness: the second of three children failed, the other two completed
\* after it, and Execute has returned.
C6_Witness ==
    /\ Aggregated
    /\ Len(tasks) = 3
    /\ gor[0].end = "ok" /\ gor[1].end = "run" /\ gor[2].end = "ok"
    /\ gor[1].rank = 0
    /\ execText[1].body = ChildResult(tasks[1])
    /\ execText[3].body = ChildResult(tasks[3])

Failed == {i \in Indices : errs[i] # NilError}

\* C7: Execute returns the aggregated text; with failed tasks it also returns
\* a failure that names each failed task by the index labeling its section, and
\* with none it returns no failure.
C7_FailureNamesSectionIndex ==
    Aggregated =>
        /\ Len(execText) = Len(tasks)
        /\ Failed = {} <=> execErr = <<>>
        /\ Len(execErr) = Cardinality(Failed)
        /\ \A i \in Failed :
             \E k \in DOMAIN execErr :
                 /\ execErr[k] = execText[i + 1].body
                 /\ execErr[k].no = execText[i + 1].label

(***************************************************************************)
(* Properties of Context (specification SpecContext).                      *)
(***************************************************************************)
Entry(c, key) == <<c, key>>
EntriesOf(ss) == {e \in {Entry(c, k) : c \in DOMAIN ss, k \in Keys} :
                     e[2] \in DOMAIN ss[e[1]].data}
SharedIn(ss, e) == e[2] \in ss[e[1]].shallowCopyKeys
RefIn(ss, e) == ss[e[1]].data[e[2]]

\* C8, in every state: two entries reference the same value only when they are
\* the same shared key in two stores; a value under a key that is not shared
\* is referenced by that one entry alone.
CopyIndependenceInv ==
    \A e, f \in EntriesOf(stores) :
        (e # f /\ RefIn(stores, e) # NilRef /\ RefIn(stores, e) = RefIn(stores, f)) =>
            /\ e[1] # f[1]
            /\ e[2] = f[2]
            /\ SharedIn(stores, e)
            /\ SharedIn(stores, f)

\* C8, in every Copy: the new store has the keys and exactly the shared keys of
\* its original; a shared key references the original's value; any other key
\* references a new value (its duplicate), or nil for nil; the stores and the
\* values that existed are as they were.
CopyStep ==
    (Len(stores') = Len(stores) + 1) =>
        \E c \in DOMAIN stores :
            LET new == stores'[Len(stores')]
            IN /\ DOMAIN new.data = DOMAIN stores[c].data
               /\ new.shallowCopyKeys = stores[c].shallowCopyKeys
               /\ \A k \in DOMAIN new.data :
                    IF k \in stores[c].shallowCopyKeys THEN new.data[k] = Get(c, k)
                    ELSE IF Get(c, k) = NilRef THEN new.data[k] = NilRef
                    ELSE /\ new.data[k] \in (Len(heap) + 1)..Len(heap')
                         /\ heap'[new.data[k]].pub = heap[Get(c, k)].pub
               /\ \A d \in DOMAIN stores : stores'[d] = stores[d]
               /\ \A a \in DOMAIN heap : heap'[a] = heap[a]

\* What a holder of the store sees under an entry.
Seen(ss, hp, e) == IF RefIn(ss, e) = NilRef THEN Value(0, 0, TRUE) ELSE hp[RefIn(ss, e)]

\* C8, in every step: what one step (a mutation, a Set, a Delete) changes under
\* an entry of one store it changes under an entry of another store only when
\* both are the same shared key referencing one value, and then both see the same.
VisibilityStep ==
    \A e, f \in EntriesOf(stores) :
        (/\ e[1] # f[1]
         /\ e \in EntriesOf(stores') => Seen(stores', heap', e) # Seen(stores, heap, e)
         /\ f \in EntriesOf(stores') => Seen(stores', heap', f) # Seen(stores, heap, f)) =>
            /\ e[2] = f[2]
            /\ SharedIn(stores, e) /\ SharedIn(stores, f)
            /\ RefIn(stores, e) = RefIn(stores, f)
            /\ e \in EntriesOf(stores') /\ f \in EntriesOf(stores')
            /\ Seen(stores', heap', e) = Seen(stores', heap', f)

\* C8: a copy shares the values of its shared keys and nothing else, and
\* inherits exactly the shared-keys set.
C8_CopyIndependence == []CopyIndependenceInv /\ [][CopyStep /\ VisibilityStep]_vars

\* C8 witness: a store and a copy of it, after a mutation of the copy's value
\* under a key that is not shared (the original's is intact) and a mutation of
\* the value under a shared key (seen through both).
C8_Witness ==
    /\ Len(stores) >= 2
    /\ Has(1, "a") /\ Has(2, "a") /\ Has(1, "b") /\ Has(2, "b")
    /\ "a" \notin stores[1].shallowCopyKeys /\ "a" \notin stores[2].shallowCopyKeys
    /\ "b" \in stores[1].shallowCopyKeys /\ "b" \in stores[2].shallowCopyKeys
    /\ Get(1, "a") # NilRef /\ Get(2, "a") # NilRef /\ Get(1, "b") # NilRef
    /\ Get(1, "a") # Get(2, "a")
    /\ heap[Get(1, "a")].pub = 1 /\ heap[Get(2, "a")].pub = 2
    /\ Get(1, "b") = Get(2, "b")
    /\ heap[Get(1, "b")].pub = 2

(***************************************************************************)
(* Properties of BuildAgent (specification SpecBuild).                     *)
(***************************************************************************)
SameName(ts) == \E i, j \in DOMAIN ts : i # j /\ ts[i].name = ts[j].name

\* C9: BuildAgent returns no agent for a tool list in which two tools report
\* the same name: an agent that was built has tools of distinct names, one
\* registry entry for each.
C9_DuplicateNamesRejected ==
    (bpc = "built") =>
        /\ ~SameName(agentTools)
        /\ \A i \in DOMAIN agentTools : registry[agentTools[i].name] = agentTools[i]

(***************************************************************************)
(* Properties of parseLLMResponse (specification SpecParse).               *)
(***************************************************************************)
\* C12: for a well-formed object with any prose before and after it, braces
\* in the prose included, parseLLMResponse returns the action the object encodes.
C12_ExtractsEmbeddedObject ==
    (jpc = "returned") =>
        \A lead \in Prose, trail \in Prose, f \in Fields :
            llmResponse \in {Embedded(lead, Object(f), trail), Embedded(lead, ObjectNesting(f), trail)}
                => parsedResponse = Decoded(f)

(***************************************************************************)
(* Properties of KeepLastN.Apply (specification SpecHistory).              *)
(***************************************************************************)
\* C13: with 0 < N < length Apply returns the last N messages in their order,
\* with N >= length all of them; the sequence handed to it is as it was, also
\* after the caller has written to what it got.
C13_KeepLastN ==
    /\ kpc \in {"returned", "written"} => Contents(history) = original
    /\ (kpc = "returned" /\ 0 < keepN /\ keepN < Len(original)) =>
           /\ managedHistory.len = keepN
           /\ \A i \in 1..keepN :
                Contents(managedHistory)[i] = original[Len(original) - keepN + i]
    /\ (kpc = "returned" /\ keepN >= Len(original)) =>
           Contents(managedHistory) = original

\* C13 witness: the last two of four messages were kept and the caller has
\* written to one of them.
C13_Witness ==
    /\ kpc = "written"
    /\ keepN = 2 /\ original = <<"a", "b", "b", "a">>
    /\ managedHistory.len = 2
    /\ Contents(managedHistory) = <<"b", Overwritten>>

(***************************************************************************)
(* Properties of a run with a TaskDelegator (specification SpecDelegate).  *)
(***************************************************************************)
\* C14, in every state: Run has returned no error other than its own two.
DelegationInv == runErr \in {NoErr, ErrPrompt, ErrInvoke}

\* C14, when Execute has returned an error to the loop: the loop appends the
\* rendered failure as one tool_result message and goes on, returning nothing.
DelegationFailureStep ==
    (pc = "tool" /\ pc' # "tool" /\ taskErr # NoErr) =>
        /\ pc' = "loop"
        /\ messages' = Append(messages, Message("user", ToolFailedText(taskErr), "tool_result", 0))
        /\ UNCHANGED <<runResult, runErr, iterationCount, isWaitingForJobs, backgroundJobs>>

\* C14, in every step: the parent's store has the entries it had, and the
\* values under its keys that are not shared are as they were.
ParentContextStep ==
    /\ stores'[baseCtx] = stores[baseCtx]
    /\ \A k \in DOMAIN stores[baseCtx].data :
         (k \notin stores[baseCtx].shallowCopyKeys /\ Get(baseCtx, k) # NilRef) =>
             heap'[Get(baseCtx, k)] = heap[Get(baseCtx, k)]

\* C14: a failure inside a delegation (the copy of the Context, the build of
\* the child, the child's Run) reaches the parent's loop only as the error of
\* Execute: Run does not return it, the loop appends it as a tool_result and
\* goes on, and the parent's Context is left as it was.
C14_DelegationFailureContained ==
    []DelegationInv /\ [][DelegationFailureStep /\ ParentContextStep]_vars

\* C14 witness: the child's Run failed with the model's error after the child
\* had changed its own store; the parent got the failure as a tool_result and
\* went on to finish with its answer.
C14_Witness ==
    /\ pc = "done" /\ runErr = NoErr /\ runResult = "answer"
    /\ \E i \in DOMAIN messages :
         /\ messages[i].type = "tool_result"
         /\ messages[i].val = ToolFailedText(ErrTaskRun(ErrInvoke))
    /\ Len(stores) >= 2 /\ calls >= 1
    /\ stores[baseCtx].data # <<>>
    /\ DOMAIN stores[2].data # DOMAIN stores[baseCtx].data

(***************************************************************************)
(* Properties of cancellation (specification SpecCancel).                  *)
(***************************************************************************)
\* C15: once the caller's context is cancelled the scope of every job the run
\* has started is done, and Run returns, also when it was waiting for jobs at
\* the cancellation.
C15_CancellationReturns ==
    /\ [](cancelled => \A j \in JobIds : jobs[j].wpc # "none" => JobCtxDone(j))
    /\ cancelled ~> (pc = "done")

\* C15 witness: the context was cancelled while the loop was waiting for a
\* tracked job, and Run has returned the error of Invoke.
C15_Witness ==
    /\ cancelled /\ waitingAtCancel
    /\ pc = "done" /\ runErr = ErrInvoke
    /\ \E j \in JobIds : Injections(j) # {}

(***************************************************************************)
(* Properties of executeTool (specification SpecExec).                     *)
(***************************************************************************)
IsTimeoutError(err) == err \in {TimeoutError(DeadlineExceeded), TimeoutError(Canceled)}
ToolErrors == {o.err : o \in ToolOutcomes} \ {NoErr}

\* C23: executeTool returns the tool's result, the tool's own error, or the
\* timeout error, which no tool error equals; the timeout error is returned
\* only when the bound of ToolTimeout has passed, whatever became of the
\* caller's context; at the return the tool's scope is done; and the loop
\* renders the error into the text of the tool_result message.
C23_TimeoutIsLocal ==
    xpc = "returned" =>
        /\ \/ toolErr = NoErr /\ toolResult \in {o.res : o \in ToolOutcomes}
           \/ toolErr \in ToolErrors \cup {DeadlineExceeded, Canceled} /\ toolResult = ""
           \/ IsTimeoutError(toolErr) /\ toolResult = ""
        /\ IsTimeoutError(toolErr) =>
               /\ toolErr \notin ToolErrors \cup {DeadlineExceeded, Canceled}
               /\ elapsed >= ToolTimeout
               /\ toolErr = TimeoutError(DeadlineExceeded)
               /\ RenderedToolResult = ToolFailedText(toolErr)
        /\ toolCtxErr # NoErr

(***************************************************************************)
(* Properties of LLMClient.Invoke (specification SpecInvoke).              *)
(***************************************************************************)
Outcomes(S) == {k \in DOMAIN callLog : callLog[k].out \in S}
EarlierTransient(n) == \A k \in 1..(n - 1) : callLog[k].out \in Transient

\* At most maxRetries calls, and a call follows transient failures only.
RetriesTransientOnly ==
    /\ Len(callLog) <= maxRetries
    /\ \A k \in DOMAIN callLog : EarlierTransient(k)

\* Every call that succeeds is the last one and its response is returned.
ReturnsFirstSuccess ==
    /\ \A k \in Outcomes({"ok", "no choices"}) :
         k = Len(callLog) /\ ipc = "returned" /\ invErr = NoErr /\ invResp = "content"
    /\ (ipc = "returned" /\ invErr = NoErr) => Outcomes({"ok"}) = {Len(callLog)}

\* A client-class error ends Invoke with an error at once.
ClientErrorIsTerminal ==
    \A k \in Outcomes({"4xx"}) : k = Len(callLog) /\ ipc = "returned" /\ invErr # NoErr

\* Once the scope is done Invoke makes no call and has returned an error,
\* unless the call under way succeeded.
NoCallOnceCancelled ==
    /\ \A k \in DOMAIN callLog : ~callLog[k].scopeDoneBefore
    /\ \A k \in Outcomes({ScopeDone}) : k = Len(callLog) /\ ipc = "returned" /\ invErr # NoErr

\* The error of the spent budget follows maxRetries transient failures.
ExhaustedAfterMaxRetries ==
    (ipc = "returned" /\ invErr = ErrRetries) =>
        Len(callLog) = maxRetries /\ EarlierTransient(maxRetries + 1)

\* Run aborts on every error of Invoke, and on nothing else.
RunAbortsOnError ==
    /\ caller = "aborted" => (ipc = "returned" /\ invErr # NoErr)
    /\ caller = "continues" => (ipc = "returned" /\ invErr = NoErr)

\* C24: Invoke makes at most maxRetries calls and retries after transient
\* failures only; it returns the response of the first call that succeeds; a
\* client-class error or a cancelled scope ends it at once with an error and
\* without a further call; maxRetries transient failures end it with an
\* error; and Run aborts on every error Invoke returns.
C24_RetriesTransientOnly ==
    /\ RetriesTransientOnly
    /\ ReturnsFirstSuccess
    /\ ClientErrorIsTerminal
    /\ NoCallOnceCancelled
    /\ ExhaustedAfterMaxRetries
    /\ RunAbortsOnError

====
